---- MODULE Spec2Model ----
(***************************************************************************)
(* Attendance reconciliation engine and QR attendance protocol of the      *)
(* sheets-backend: one class, one date.                                    *)
(*                                                                         *)
(* The repository holds three implementations of the QR protocol:          *)
(*   "file"  - DatabaseManager  (db_manager.py), JSON files                *)
(*   "mongo" - MongoDBManager   (mongodb_manager.py), document store       *)
(*   "http"  - the /qr/* endpoints of main.py, which keep the QR session   *)
(*             in the process-local dict db.active_qr_sessions and store   *)
(*             classes and enrollments through MongoDBManager              *)
(* The variable impl selects one of them in Init and never changes.        *)
(*                                                                         *)
(* Timestamps written beside the data (updated_at, started_at,             *)
(* last_scan_at, stopped_at, re_enrolled_at) are read by no operation      *)
(* modelled here and are left out.  Time is counted in half seconds.       *)
(***************************************************************************)
EXTENDS Integers, Sequences, FiniteSets, TLC

VARIABLES impl, enrollment_mode, students, statistics, enrollments, qr_sessions, now, last,
          pending

vars == <<impl, enrollment_mode, students, statistics, enrollments, qr_sessions, now, last, pending>>

(* ------------------------------ bounds --------------------------------- *)

\* the clock stops after MaxTime half seconds
MaxTime == 2
\* no QR session is started with a number above MaxSessionNumber
MaxSessionNumber == 2
\* size of the code alphabet the random generator draws from
NumCodes == 2
\* largest numeric suffix the id parser is asked about
MaxIdNum == 5
\* largest session_number of the sessions a verdict is applied in
MaxVerdictNumber == 3

Impls == {"file", "mongo", "http"}
\* global student accounts
StudentIds == {"s1", "s2"}
\* the student whose enrollment changes; the other stays enrolled throughout
Movers == {"s2"}
\* the class belongs to Owner
Owner == "t1"
Teachers == {"t1", "t2"}
Codes == 1..NumCodes
\* rotation_interval, in seconds
RotationIntervals == {1}
Null == "null"

\* rollNo a student enrolls with (student_info["rollNo"])
RollOf(s) == IF s = "s1" THEN 2 ELSE IF s = "s2" THEN 1 ELSE 3

(* --------------------------- attendance cells -------------------------- *)

\* f"session_{i}"
SessionId(i) == "session_" \o ToString(i)

\* f"QR Session {i}"
QRName(i) == "QR Session " \o ToString(i)

\* f"Session {i}"
PlainName(i) == "Session " \o ToString(i)

\* int(s["id"].split("_")[1])
IdNum(id) == CHOOSE i \in 0..MaxIdNum : SessionId(i) = id

Entry(id, name, status) == [id |-> id, name |-> name, status |-> status]

\* attendance.get(date) is None
NoCell == [kind |-> "none", status |-> Null, count |-> 0, sessions |-> <<>>]
\* 'P' | 'A' | 'L'
Simple(s) == [kind |-> "str", status |-> s, count |-> 0, sessions |-> <<>>]
\* { status: 'P', count: 2 }
Counted(s, c) == [kind |-> "counted", status |-> s, count |-> c, sessions |-> <<>>]
\* { sessions: [...], updated_at: ... }
SessionsCell(ss) == [kind |-> "sessions", status |-> Null, count |-> 0, sessions |-> ss]

\* { note: ... }: an object with neither sessions nor status
OtherObject == [kind |-> "object", status |-> Null, count |-> 0, sessions |-> <<>>]
\* { sessions: 3 }: a sessions value that is a number, not a list
SessionsNotAList == [kind |-> "sessions_not_list", status |-> Null, count |-> 0, sessions |-> <<>>]

IsNone(c) == c.kind = "none"
NotAList(c) == c.kind = "sessions_not_list"
IsStr(c) == c.kind = "str"
HasSessions(c) == c.kind = "sessions"
HasStatus(c) == c.kind = "counted"

\* list.insert(idx0, x), idx0 counted from 0
ListInsert(seq, idx0, x) ==
    IF idx0 >= Len(seq) THEN Append(seq, x)
    ELSE SubSeq(seq, 1, idx0) \o <<x>> \o SubSeq(seq, idx0 + 1, Len(seq))

\* {s.get('id') for s in sessions}
IdsOf(ss) == {ss[k].id : k \in 1..Len(ss)}

\* len([s for s in sessions if s.get('status') is not None])
ValidCount(ss) == Cardinality({k \in 1..Len(ss) : ss[k].status # Null})

SetMax(S) == CHOOSE m \in S : \A x \in S : x <= m

(* --------------------------- session numbering ------------------------- *)

\* one student's contribution in DatabaseManager._count_valid_sessions_for_date
FileStudentCount(c) ==
    IF HasSessions(c) THEN ValidCount(c.sessions)
    ELSE IF HasStatus(c) THEN (IF c.status # Null THEN c.count ELSE 0)
    ELSE IF IsStr(c) THEN 1
    ELSE 0

\* DatabaseManager._count_valid_sessions_for_date
CountValidSessionsForDate(studs) ==
    SetMax({0} \cup {FileStudentCount(studs[k].attendance) : k \in 1..Len(studs)})

\* one student's session_count in main.get_current_session_number_for_date
HttpStudentCount(c) ==
    IF HasSessions(c) THEN Len(c.sessions)
    ELSE IF HasStatus(c) THEN c.count
    ELSE IF IsStr(c) THEN 1
    ELSE 0

\* main.get_current_session_number_for_date
GetCurrentSessionNumberForDate(studs) ==
    SetMax({0} \cup {HttpStudentCount(studs[k].attendance) : k \in 1..Len(studs)}) + 1

\* MongoDBManager.start_qr_session: number taken from the stored QR sessions
MongoNextSessionNumber(sessions) ==
    IF Len(sessions) = 0 THEN 1
    ELSE SetMax({sessions[k].session_number : k \in 1..Len(sessions)}) + 1

(* ------------------------------ cell merge ----------------------------- *)

\* for i in range(1, n + 1): if session_i not in existing_ids: sessions.insert(i - 1, ...)
RECURSIVE FillMissing(_, _, _, _, _)
FillMissing(ss, existing, i, n, lastStatus) ==
    IF i > n THEN ss
    ELSE FillMissing(
            IF SessionId(i) \in existing THEN ss
            ELSE ListInsert(ss, i - 1,
                            Entry(SessionId(i), QRName(i), IF i = n THEN lastStatus ELSE "A")),
            existing, i + 1, n, lastStatus)

\* for s in sessions: if s.get('id') == id: s['status'] = st; break
SetFirstStatus(ss, id, st) ==
    IF id \in IdsOf(ss)
    THEN LET k == CHOOSE j \in 1..Len(ss) :
                     ss[j].id = id /\ \A h \in 1..(j - 1) : ss[h].id # id
         IN [ss EXCEPT ![k].status = st]
    ELSE ss

\* the sessions array with session 1 defaulted to "A", the simple value dropped
BuildHistoryDefaulted(cur, n, lastStatus) ==
    [i \in 1..n |-> Entry(SessionId(i), QRName(i), IF i < n THEN "A" ELSE lastStatus)]

\* the sessions array running one session past the session's number
BuildHistoryOneMore(cur, n, lastStatus) ==
    [i \in 1..(n + 1) |->
        Entry(SessionId(i), QRName(i),
              IF i = 1 /\ IsStr(cur) THEN cur.status
              ELSE IF i < n THEN "A" ELSE lastStatus)]

\* the sessions array built from an empty or simple cell, all with "QR Session" names
BuildHistory(cur, n, lastStatus) ==
    [i \in 1..n |->
        Entry(SessionId(i), QRName(i),
              IF i = 1 /\ IsStr(cur) THEN cur.status
              ELSE IF i < n THEN "A" ELSE lastStatus)]

\* DatabaseManager.scan_qr_code, step "update attendance"
FileScanCell(cur, n) ==
    IF n = 1 THEN
        IF IsNone(cur) THEN Simple("P")
        ELSE IF IsStr(cur) THEN Simple("P")
        ELSE IF HasSessions(cur) THEN
            IF Len(cur.sessions) > 0
            THEN SessionsCell([cur.sessions EXCEPT ![1].status = "P"])
            ELSE SessionsCell(<<Entry(SessionId(1), QRName(1), "P")>>)
        ELSE cur
    ELSE
        IF IsNone(cur) \/ IsStr(cur) THEN
            SessionsCell(
                [i \in 1..(n - 1) |->
                    Entry(SessionId(i), QRName(i),
                          IF i = 1 /\ IsStr(cur) THEN cur.status ELSE "A")]
                \o <<Entry(SessionId(n), QRName(n), "P")>>)
        ELSE IF HasSessions(cur) THEN
            SessionsCell(SetFirstStatus(
                FillMissing(cur.sessions, IdsOf(cur.sessions), 1, n, "P"),
                SessionId(n), "P"))
        ELSE cur

\* MongoDBManager.scan_qr_code, step "update attendance"
MongoScanCell(cur, n) ==
    IF n = 1 THEN Simple("P")
    ELSE
        IF IsNone(cur) \/ IsStr(cur) THEN SessionsCell(BuildHistory(cur, n, "P"))
        ELSE IF HasSessions(cur) THEN
            SessionsCell(SetFirstStatus(
                FillMissing(cur.sessions, IdsOf(cur.sessions), 1, n, "P"),
                SessionId(n), "P"))
        ELSE cur

\* sessions.sort(key=lambda x: int(x["id"].split("_")[1])) (stable)
RECURSIVE SortByIdNum(_)
SortByIdNum(ss) ==
    IF Len(ss) <= 1 THEN ss
    ELSE LET rest == SortByIdNum(SubSeq(ss, 1, Len(ss) - 1))
             x == ss[Len(ss)]
             p == Cardinality({k \in 1..Len(rest) : IdNum(rest[k].id) <= IdNum(x.id)})
         IN SubSeq(rest, 1, p) \o <<x>> \o SubSeq(rest, p + 1, Len(rest))

\* for i in range(1, n + 1): if i not in existing_ids: sessions.append(...)
RECURSIVE AppendMissing(_, _, _, _)
AppendMissing(ss, existingNums, i, n) ==
    IF i > n THEN ss
    ELSE AppendMissing(
            IF i \in existingNums THEN ss
            ELSE Append(ss, Entry(SessionId(i), PlainName(i), IF i # n THEN "A" ELSE "P")),
            existingNums, i + 1, n)

\* main.scan_qr_code, step "mark attendance"
HttpScanCell(cur, n) ==
    IF n = 1 THEN
        IF IsNone(cur) THEN Simple("P")
        ELSE IF IsStr(cur) THEN
            SessionsCell(<<Entry(SessionId(1), PlainName(1), cur.status)>>)
        ELSE IF HasSessions(cur) THEN SessionsCell(cur.sessions)
        ELSE SessionsCell(<<Entry(SessionId(1), PlainName(1), "P")>>)
    ELSE
        IF IsStr(cur) \/ IsNone(cur) THEN
            SessionsCell(
                [i \in 1..n |->
                    Entry(SessionId(i), PlainName(i),
                          IF i = 1 /\ IsStr(cur) THEN cur.status
                          ELSE IF i = n THEN "P" ELSE "A")])
        ELSE IF HasSessions(cur) THEN
            SessionsCell(SortByIdNum(
                IF SessionId(n) \in IdsOf(cur.sessions)
                THEN SetFirstStatus(cur.sessions, SessionId(n), "P")
                ELSE AppendMissing(cur.sessions,
                                   {IdNum(cur.sessions[k].id) : k \in 1..Len(cur.sessions)},
                                   1, n)))
        ELSE cur

\* DatabaseManager.stop_qr_session, the absent mark of one student
FileStopCell(cur, n) ==
    IF n = 1 THEN Simple("A")
    ELSE
        IF IsStr(cur) \/ IsNone(cur) THEN SessionsCell(BuildHistory(cur, n, "A"))
        ELSE IF HasSessions(cur) THEN
            SessionsCell(FillMissing(cur.sessions, IdsOf(cur.sessions), 1, n, "A"))
        ELSE cur

\* MongoDBManager.stop_qr_session, the absent mark of one student
MongoStopCell(cur, n) ==
    IF n = 1 THEN Simple("A")
    ELSE
        IF IsStr(cur) \/ IsNone(cur) THEN SessionsCell(BuildHistory(cur, n, "A"))
        ELSE IF HasSessions(cur) THEN
            SessionsCell(FillMissing(cur.sessions, IdsOf(cur.sessions), 1, n, "A"))
        ELSE cur

\* main.stop_qr_session, the absent mark of one student
HttpStopCell(cur, n) ==
    IF n = 1 THEN Simple("A")
    ELSE
        IF IsStr(cur) \/ IsNone(cur) THEN SessionsCell(BuildHistory(cur, n, "A"))
        ELSE IF HasSessions(cur) THEN
            SessionsCell(FillMissing(cur.sessions, IdsOf(cur.sessions), 1, n, "A"))
        ELSE cur

(* ------------------------------- storage ------------------------------- *)

StudentRecord(id, roll, cell) == [id |-> id, rollNo |-> roll, attendance |-> cell]

Enrollment(s, rid, st) == [student_id |-> s, student_record_id |-> rid, status |-> st]

QRSession(teacher, n, interval, code, at) ==
    [teacher_id |-> teacher, session_number |-> n, rotation_interval |-> interval,
     current_code |-> code, code_generated_at |-> at,
     scanned_students |-> <<>>, status |-> "active"]

\* what an operation reports to its caller
Result(op, res, rid, n, scanned, absent) ==
    [op |-> op, result |-> res, record |-> rid, session_number |-> n,
     scanned_count |-> scanned, absent_count |-> absent]

Rejected(op, res) == Result(op, res, 0, 0, 0, 0)

\* MongoDBManager._sort_students_by_roll (numeric roll numbers, stable)
RECURSIVE SortStudentsByRoll(_)
SortStudentsByRoll(studs) ==
    IF Len(studs) <= 1 THEN studs
    ELSE LET rest == SortStudentsByRoll(SubSeq(studs, 1, Len(studs) - 1))
             x == studs[Len(studs)]
             p == Cardinality({k \in 1..Len(rest) : rest[k].rollNo <= x.rollNo})
         IN SubSeq(rest, 1, p) \o <<x>> \o SubSeq(rest, p + 1, Len(rest))

\* the least index of a set of indexes, 0 when it is empty (a loop's first match)
FirstIndex(S) == IF S = {} THEN 0 ELSE CHOOSE k \in S : \A h \in S : k <= h

\* [s for s in all_students if s.get("id") in ids]
RECURSIVE FilterByIds(_, _)
FilterByIds(studs, ids) ==
    IF Len(studs) = 0 THEN <<>>
    ELSE LET rest == FilterByIds(SubSeq(studs, 1, Len(studs) - 1), ids)
         IN IF studs[Len(studs)].id \in ids THEN Append(rest, studs[Len(studs)]) ELSE rest

\* an enrollment check that finds nothing
NoEnrollmentIndex(s) == 0

\* the first enrollment of the student with status active (0: none)
ActiveEnrollmentIndex(s) ==
    FirstIndex({k \in 1..Len(enrollments) :
                   enrollments[k].student_id = s /\ enrollments[k].status = "active"})

\* {e.get("student_record_id") for e in enrollments if e.get("status") == "active"}
ActiveRecordIds ==
    {enrollments[k].student_record_id :
        k \in {j \in 1..Len(enrollments) : enrollments[j].status = "active"}}

\* the first student record with the id (0: none)
RecordIndex(studs, rid) ==
    FirstIndex({k \in 1..Len(studs) : studs[k].id = rid})

\* the first stored QR session whatever its status (0: none)
AnySessionIndex == FirstIndex(1..Len(qr_sessions))

\* the first stored QR session with status active (0: none)
ActiveSessionIndex ==
    FirstIndex({k \in 1..Len(qr_sessions) : qr_sessions[k].status = "active"})

\* MongoDBManager.get_class: the roster the teacher sees
MongoGetClass ==
    SortStudentsByRoll(
        IF enrollment_mode \in {"link_based_enrollment", "enrollment_via_id"}
        THEN FilterByIds(students, ActiveRecordIds) ELSE students)

\* MongoDBManager.get_class_by_id: every stored record, sorted
MongoGetClassById == SortStudentsByRoll(students)

\* elapsed >= rotation_interval, with the clock in half seconds
RotationDue(q) == now - q.code_generated_at >= 2 * q.rotation_interval

\* elapsed_seconds >= (rotation_interval - 0.5) in main.rotate_qr_code_if_needed
HttpRotationDue(q) == now - q.code_generated_at >= 2 * q.rotation_interval - 1

Rotated(q, code) == [q EXCEPT !.current_code = code, !.code_generated_at = now]

\* scanned.append(student_record_id) whether it is there or not
AppendScanned(q, rid) == [q EXCEPT !.scanned_students = Append(@, rid)]

\* scanned.append(student_record_id) unless already there
AddScanned(q, rid) ==
    IF \E k \in 1..Len(q.scanned_students) : q.scanned_students[k] = rid
    THEN q
    ELSE [q EXCEPT !.scanned_students = Append(@, rid)]

\* set(session.get("scanned_students", []))
ScannedSet(q) == {q.scanned_students[k] : k \in 1..Len(q.scanned_students)}

(* ------------------------------ statistics ----------------------------- *)

\* the dates an attendance map of the statistics runs can hold
MaxDates == 2

\* class_data.get('thresholds'): None, or the dict of percentage cutoffs
NoThresholds == [kind |-> "none", excellent |-> 0, good |-> 0, moderate |-> 0, atRisk |-> 0]
Thresholds(e, g, m, r) ==
    [kind |-> "dict", excellent |-> e, good |-> g, moderate |-> m, atRisk |-> r]

\* the cutoffs used when the class has none
DefaultThresholds == Thresholds(95, 90, 85, 85)

EffectiveThresholds(thresholds) ==
    IF thresholds.kind = "none" THEN DefaultThresholds ELSE thresholds

\* an attendance map is the tuple of its values date by date, NoCell where the
\* map has no key for the date; this is `not attendance`
IsEmptyMap(attendance) == \A d \in 1..Len(attendance) : IsNone(attendance[d])

\* what one value of the map adds to the counter of the status
StatusCount(c, status) ==
    IF HasSessions(c)
    THEN Cardinality({k \in 1..Len(c.sessions) : c.sessions[k].status = status})
    ELSE IF HasStatus(c) THEN (IF c.status = status THEN c.count ELSE 0)
    ELSE IF IsStr(c) THEN (IF c.status = status THEN 1 ELSE 0)
    ELSE 0

RECURSIVE CountStatus(_, _)
\* the counter of the status after the loop over attendance.items()
CountStatus(attendance, status) ==
    IF Len(attendance) = 0 THEN 0
    ELSE CountStatus(SubSeq(attendance, 1, Len(attendance) - 1), status)
            + StatusCount(attendance[Len(attendance)], status)

\* n / d rounded to the nearest integer, for n >= 0 and d > 0
RoundDiv(n, d) == (2 * n + d) \div (2 * d)

\* round((attended / total) * 100, 3) in thousandths of a percent; 0.0 when total is 0
Percentage(attended, total) ==
    IF total > 0 THEN RoundDiv(attended * 100000, total) ELSE 0

\* percentage >= cutoff, on the unrounded percentage
MeetsCutoff(attended, total, cutoff) ==
    IF total > 0 THEN attended * 100 >= cutoff * total ELSE 0 >= cutoff

\* a chain that never answers "good"
StatusBucketSkippingGood(attended, total, th) ==
    IF MeetsCutoff(attended, total, th.excellent) THEN "excellent"
    ELSE IF MeetsCutoff(attended, total, th.moderate) THEN "moderate"
    ELSE "at risk"

\* the if / elif chain over the thresholds
StatusBucket(attended, total, th) ==
    IF MeetsCutoff(attended, total, th.excellent) THEN "excellent"
    ELSE IF MeetsCutoff(attended, total, th.good) THEN "good"
    ELSE IF MeetsCutoff(attended, total, th.moderate) THEN "moderate"
    ELSE "at risk"

StudentStatistics(total, present, absent, late, percentage, status) ==
    [total_classes |-> total, present |-> present, absent |-> absent, late |-> late,
     percentage |-> percentage, status |-> status]

\* DatabaseManager.calculate_student_statistics
CalculateStudentStatistics(student_record, thresholds) ==
    LET attendance == student_record.attendance
        present == CountStatus(attendance, "P")
        absent == CountStatus(attendance, "A")
        late == CountStatus(attendance, "L")
        total == present + absent + late
    IN IF IsEmptyMap(attendance)
       THEN StudentStatistics(0, 0, 0, 0, 0, "no data")
       ELSE StudentStatistics(total, present, absent, late,
                              Percentage(present + late, total),
                              StatusBucket(present + late, total,
                                           EffectiveThresholds(thresholds)))

\* MongoDBManager.calculate_student_statistics: the same loop and the same chain
MongoCalculateStudentStatistics(student_record, thresholds) ==
    CalculateStudentStatistics(student_record, thresholds)

\* the valid sessions of a record and those attended
TotalOf(student_record) ==
    CountStatus(student_record.attendance, "P") + CountStatus(student_record.attendance, "A")
       + CountStatus(student_record.attendance, "L")
AttendedOf(student_record) ==
    CountStatus(student_record.attendance, "P") + CountStatus(student_record.attendance, "L")

RECURSIVE SumPercentages(_)
\* total_attendance after the loop, as the fraction <<numerator, denominator>>
SumPercentages(studs) ==
    IF Len(studs) = 0 THEN <<0, 1>>
    ELSE LET rest == SumPercentages(SubSeq(studs, 1, Len(studs) - 1))
             a == AttendedOf(studs[Len(studs)])
             t == TotalOf(studs[Len(studs)])
         IN IF t > 0 THEN <<rest[1] * t + a * 100 * rest[2], rest[2] * t>> ELSE rest

\* DatabaseManager.calculate_class_statistics
CalculateClassStatistics(studs, thresholds) ==
    LET th == EffectiveThresholds(thresholds)
        counted == {k \in 1..Len(studs) : TotalOf(studs[k]) > 0}
        students_with_attendance == Cardinality(counted)
        sum == SumPercentages(studs)
        isExcellent(k) == MeetsCutoff(AttendedOf(studs[k]), TotalOf(studs[k]), th.excellent)
        isAtRisk(k) == ~MeetsCutoff(AttendedOf(studs[k]), TotalOf(studs[k]), th.atRisk)
    IN [totalStudents |-> Len(studs),
        avgAttendance |-> IF students_with_attendance > 0
                          THEN RoundDiv(sum[1] * 1000, sum[2] * students_with_attendance)
                          ELSE 0,
        atRiskCount |-> Cardinality({k \in counted : ~isExcellent(k) /\ isAtRisk(k)}),
        excellentCount |-> Cardinality({k \in counted : isExcellent(k)})]

\* present_count of one student in MongoDBManager.calculate_class_statistics
MongoPresentCount(attendance) ==
    Cardinality({d \in 1..Len(attendance) :
        \/ IsStr(attendance[d]) /\ attendance[d].status = "P"
        \/ /\ HasSessions(attendance[d])
           /\ \E k \in 1..Len(attendance[d].sessions) : attendance[d].sessions[k].status = "P"})

\* total_days = len(attendance)
MongoTotalDays(attendance) == Cardinality({d \in 1..Len(attendance) : ~IsNone(attendance[d])})

RECURSIVE MongoSumPercentages(_)
\* total_attendance_sum after the loop, as the fraction <<numerator, denominator>>
MongoSumPercentages(studs) ==
    IF Len(studs) = 0 THEN <<0, 1>>
    ELSE LET rest == MongoSumPercentages(SubSeq(studs, 1, Len(studs) - 1))
             a == MongoPresentCount(studs[Len(studs)].attendance)
             t == MongoTotalDays(studs[Len(studs)].attendance)
         IN IF t > 0 THEN <<rest[1] * t + a * 100 * rest[2], rest[2] * t>> ELSE rest

\* MongoDBManager.calculate_class_statistics; averageAttendance is rounded to 2 places
MongoCalculateClassStatistics(studs) ==
    LET counted == {k \in 1..Len(studs) : ~IsEmptyMap(studs[k].attendance)}
        students_with_attendance == Cardinality(counted)
        sum == MongoSumPercentages(studs)
    IN [totalStudents |-> Len(studs),
        averageAttendance |-> IF students_with_attendance > 0
                              THEN 10 * RoundDiv(sum[1] * 100, sum[2] * students_with_attendance)
                              ELSE 0,
        totalSessions |-> SetMax({0} \cup {MongoTotalDays(studs[k].attendance) : k \in counted})]

\* what one value adds to total_sessions in main.update_multi_session_attendance
MultiSessionCount(c) ==
    IF HasSessions(c) THEN Len(c.sessions)
    ELSE IF HasStatus(c) THEN c.count
    ELSE IF IsStr(c) THEN 1
    ELSE 0

RECURSIVE MultiSessionTotal(_)
MultiSessionTotal(attendance) ==
    IF Len(attendance) = 0 THEN 0
    ELSE MultiSessionTotal(SubSeq(attendance, 1, Len(attendance) - 1))
            + MultiSessionCount(attendance[Len(attendance)])

RECURSIVE SumOver(_, _)
\* the sum of f[k] over the indices in S
SumOver(f, S) ==
    IF S = {} THEN 0
    ELSE LET k == CHOOSE x \in S : TRUE IN f[k] + SumOver(f, S \ {k})

\* the statistics main.update_multi_session_attendance recalculates
MultiSessionStatistics(studs) ==
    LET idx == 1..Len(studs)
        total_sessions == SumOver([k \in idx |-> MultiSessionTotal(studs[k].attendance)], idx)
        total_present == SumOver([k \in idx |-> CountStatus(studs[k].attendance, "P")], idx)
        total_late == SumOver([k \in idx |-> CountStatus(studs[k].attendance, "L")], idx)
    IN [totalStudents |-> Len(studs),
        avgAttendance |-> Percentage(total_present + total_late, total_sessions),
        atRiskCount |-> 0,
        excellentCount |-> 0]

\* the sessions of the request, whatever their status
AllSessions(sessions) == sessions

\* valid_sessions: the sessions of the request whose status is 'P', 'A' or 'L'
ValidSessions(sessions) == SelectSeq(sessions, LAMBDA s : s.status \in {"P", "A", "L"})

\* the class with every attendance map cut down to one date
OnDate(studs, d) ==
    [k \in 1..Len(studs) |-> [studs[k] EXCEPT !.attendance = studs[k].attendance[d]]]

\* a class whose attendance maps hold the one date of the QR runs
OneDate(studs) ==
    [k \in 1..Len(studs) |-> [studs[k] EXCEPT !.attendance = <<studs[k].attendance>>]]

\* db.calculate_class_statistics of the manager in use, for a class without thresholds
ClassDocumentStatistics(studs) ==
    IF impl = "file" THEN CalculateClassStatistics(studs, NoThresholds)
    ELSE MongoCalculateClassStatistics(studs)

\* the roster before any attendance of the date was stored
Unmarked(studs) == [k \in 1..Len(studs) |-> [studs[k] EXCEPT !.attendance = NoCell]]

\* the statistics found in the class document when the run begins: main.py rewrites
\* them with every scan and stop; the enrollments and QR operations of the managers
\* never do, so a class whose students enrolled themselves still holds the statistics
\* create_class stored, and a class entered by the teacher those of the saved roster
StoredStatistics(studs) ==
    IF impl = "http" THEN ClassDocumentStatistics(OneDate(studs))
    ELSE IF enrollment_mode = "enrollment_via_id" THEN ClassDocumentStatistics(<<>>)
    ELSE ClassDocumentStatistics(OneDate(Unmarked(studs)))

(* ----------------------------- initial state --------------------------- *)

\* cells a class document may hold for the date: written by earlier versions,
\* by update_class or by the manual multi-session update
InitCells ==
    { NoCell, Simple("A"),
      Counted("P", 1),
      SessionsCell(<<Entry(SessionId(1), PlainName(1), "P"),
                     Entry(SessionId(2), PlainName(2), Null)>>),
      SessionsCell(<<Entry(SessionId(2), PlainName(2), "P")>>),
      SessionsCell(<<Entry(SessionId(2), PlainName(2), "L"),
                     Entry(SessionId(1), PlainName(1), "P")>>) }

InitCellsOther == { NoCell, Simple("A") }

\* who is enrolled when the run begins
Rosters == {"s1", "both", "s2"}

Init ==
    /\ impl \in Impls
    /\ enrollment_mode = "enrollment_via_id"
    /\ \E c1 \in InitCells, c2 \in InitCellsOther, roster \in Rosters :
          LET r1 == StudentRecord(1, RollOf("s1"), c1)
              r2 == StudentRecord(2, RollOf("s2"), c2)
              e1 == Enrollment("s1", 1, "active")
              e2 == Enrollment("s2", 2, "active")
              stored == IF roster = "both" THEN <<r1, r2>>
                        ELSE IF roster = "s1" THEN <<r1>> ELSE <<r2>>
          IN /\ students = IF impl = "file" THEN stored ELSE SortStudentsByRoll(stored)
             /\ enrollments = IF roster = "both" THEN <<e1, e2>>
                              ELSE IF roster = "s1" THEN <<e1>> ELSE <<e2>>
    /\ qr_sessions = <<>>
    /\ statistics = StoredStatistics(students)
    /\ pending = {}
    /\ now = 0
    /\ last = Rejected("init", "ok")

\* the session file is missing, or its status is not "active", ignoring the status
FileNoSessionFile == Len(qr_sessions) = 0

\* DatabaseManager: not session or session.get("status") != "active"
FileNoActiveSession == Len(qr_sessions) = 0 \/ qr_sessions[1].status # "active"

\* the lookup of an active session finding nothing
MongoExistingSessionMissed == FALSE

\* MongoDBManager.start_qr_session: existing_session = qr_sessions.find_one({status: "active"})
MongoExistingSession == ActiveSessionIndex # 0

(* -------------------------------- clock -------------------------------- *)

Tick ==
    /\ now < MaxTime
    /\ now' = now + 1
    /\ UNCHANGED <<impl, enrollment_mode, students, enrollments, qr_sessions, last, statistics, pending>>

(* -------------------------------- start -------------------------------- *)

\* DatabaseManager.start_qr_session
FileStart(teacher, interval, code) ==
    /\ impl = "file"
    /\ LET n == CountValidSessionsForDate(students) + 1
       IN IF teacher # Owner
          THEN /\ last' = Rejected("start", "unauthorized")
               /\ UNCHANGED qr_sessions
          ELSE IF enrollment_mode # "enrollment_via_id"
          THEN /\ last' = Rejected("start", "invalid_mode")
               /\ UNCHANGED qr_sessions
          ELSE IF ~FileNoActiveSession
          THEN /\ last' = Rejected("start", "conflict")
               /\ UNCHANGED qr_sessions
          ELSE /\ n <= MaxSessionNumber
               /\ qr_sessions' = <<QRSession(teacher, n, interval, code, now)>>
               /\ last' = Result("start", "ok", 0, n, 0, 0)
    /\ UNCHANGED <<impl, enrollment_mode, students, enrollments, now, statistics, pending>>

\* MongoDBManager.start_qr_session
MongoStart(teacher, interval, code) ==
    /\ impl = "mongo"
    /\ LET n == MongoNextSessionNumber(qr_sessions)
       IN IF MongoExistingSession
          THEN /\ last' = Rejected("start", "conflict")
               /\ UNCHANGED qr_sessions
          ELSE /\ n <= MaxSessionNumber
               /\ qr_sessions' = Append(qr_sessions, QRSession(teacher, n, interval, code, now))
               /\ last' = Result("start", "ok", 0, n, 0, 0)
    /\ UNCHANGED <<impl, enrollment_mode, students, enrollments, now, statistics, pending>>

\* main.start_qr_session (POST /qr/start-session)
HttpStart(teacher, interval, code) ==
    /\ impl = "http"
    /\ LET n == GetCurrentSessionNumberForDate(MongoGetClass)
       IN IF teacher # Owner
          THEN /\ last' = Rejected("start", "not_found")
               /\ UNCHANGED qr_sessions
          ELSE /\ n <= MaxSessionNumber
               /\ qr_sessions' = <<QRSession(teacher, n, interval, code, now)>>
               /\ last' = Result("start", "ok", 0, n, 0, 0)
    /\ UNCHANGED <<impl, enrollment_mode, students, enrollments, now, statistics, pending>>

(* --------------------------------- poll -------------------------------- *)

\* DatabaseManager.get_qr_session
FilePoll(code) ==
    /\ impl = "file"
    /\ IF FileNoActiveSession
       THEN /\ last' = Rejected("poll", "no_active_session")
            /\ UNCHANGED qr_sessions
       ELSE /\ qr_sessions' = IF RotationDue(qr_sessions[1])
                              THEN <<Rotated(qr_sessions[1], code)>>
                              ELSE qr_sessions
            /\ last' = Result("poll", "ok", 0, qr_sessions[1].session_number, 0, 0)
    /\ UNCHANGED <<impl, enrollment_mode, students, enrollments, now, statistics, pending>>

\* MongoDBManager.get_qr_session with _maybe_rotate_qr_session: the stored sessions after it
MongoGetQRSession(code) ==
    LET k == ActiveSessionIndex
    IN IF k # 0 /\ RotationDue(qr_sessions[k])
       THEN [qr_sessions EXCEPT ![k] = Rotated(@, code)]
       ELSE qr_sessions

\* MongoDBManager.get_qr_session
MongoPoll(code) ==
    /\ impl = "mongo"
    /\ IF ActiveSessionIndex = 0
       THEN /\ last' = Rejected("poll", "no_active_session")
            /\ UNCHANGED qr_sessions
       ELSE /\ qr_sessions' = MongoGetQRSession(code)
            /\ last' = Result("poll", "ok", 0,
                              qr_sessions[ActiveSessionIndex].session_number, 0, 0)
    /\ UNCHANGED <<impl, enrollment_mode, students, enrollments, now, statistics, pending>>

\* main.get_qr_session (GET /qr/session/{class_id}) with rotate_qr_code_if_needed
HttpPoll(teacher, code) ==
    /\ impl = "http"
    /\ IF Len(qr_sessions) = 0 \/ qr_sessions[1].teacher_id # teacher
       THEN /\ last' = Rejected("poll", "no_active_session")
            /\ UNCHANGED qr_sessions
       ELSE /\ qr_sessions' = IF HttpRotationDue(qr_sessions[1])
                              THEN <<Rotated(qr_sessions[1], code)>>
                              ELSE qr_sessions
            /\ last' = Result("poll", "ok", 0, qr_sessions[1].session_number, 0, 0)
    /\ UNCHANGED <<impl, enrollment_mode, students, enrollments, now, statistics, pending>>

(* --------------------------------- scan -------------------------------- *)

\* DatabaseManager.scan_qr_code
FileScan(s, submitted) ==
    /\ impl = "file"
    /\ IF FileNoActiveSession
       THEN /\ last' = Rejected("scan", "no_active_session")
            /\ UNCHANGED <<students, qr_sessions>>
       ELSE IF qr_sessions[1].current_code # submitted
       THEN /\ last' = Rejected("scan", "invalid_code")
            /\ UNCHANGED <<students, qr_sessions>>
       ELSE IF ActiveEnrollmentIndex(s) = 0
       THEN /\ last' = Rejected("scan", "not_enrolled")
            /\ UNCHANGED <<students, qr_sessions>>
       ELSE LET q == qr_sessions[1]
                rid == enrollments[ActiveEnrollmentIndex(s)].student_record_id
                idx == RecordIndex(students, rid)
            IN IF idx = 0
               THEN /\ last' = Rejected("scan", "record_not_found")
                    /\ UNCHANGED <<students, qr_sessions>>
               ELSE /\ students' = [students EXCEPT
                                       ![idx].attendance = FileScanCell(@, q.session_number)]
                    /\ qr_sessions' = <<AddScanned(q, rid)>>
                    /\ last' = Result("scan", "ok", rid, q.session_number, 0, 0)
    /\ UNCHANGED <<impl, enrollment_mode, enrollments, now, statistics, pending>>

\* MongoDBManager.scan_qr_code
MongoScan(s, submitted, code) ==
    /\ impl = "mongo"
    /\ IF ActiveSessionIndex = 0
       THEN /\ last' = Rejected("scan", "no_active_session")
            /\ UNCHANGED <<students, qr_sessions>>
       ELSE LET k == ActiveSessionIndex
                loaded == MongoGetQRSession(code)
                q == loaded[k]
            IN IF q.current_code # submitted
               THEN /\ last' = Rejected("scan", "invalid_code")
                    /\ qr_sessions' = loaded
                    /\ UNCHANGED students
               ELSE IF ActiveEnrollmentIndex(s) = 0
               THEN /\ last' = Rejected("scan", "not_enrolled")
                    /\ qr_sessions' = loaded
                    /\ UNCHANGED students
               ELSE LET rid == enrollments[ActiveEnrollmentIndex(s)].student_record_id
                        class_students == MongoGetClassById
                        idx == RecordIndex(class_students, rid)
                    IN IF idx = 0
                       THEN /\ last' = Rejected("scan", "record_not_found")
                            /\ qr_sessions' = loaded
                            /\ UNCHANGED students
                       ELSE /\ students' = [class_students EXCEPT
                                    ![idx].attendance = MongoScanCell(@, q.session_number)]
                            /\ qr_sessions' = [loaded EXCEPT ![k] = AddScanned(@, rid)]
                            /\ last' = Result("scan", "ok", rid, q.session_number, 0, 0)
    /\ UNCHANGED <<impl, enrollment_mode, enrollments, now, statistics, pending>>

\* main.scan_qr_code (POST /qr/scan)
HttpScan(s, submitted) ==
    /\ impl = "http"
    /\ IF Len(qr_sessions) = 0
       THEN /\ last' = Rejected("scan", "no_active_session")
            /\ UNCHANGED <<students, qr_sessions>>
       ELSE IF qr_sessions[1].current_code # submitted
       THEN /\ last' = Rejected("scan", "invalid_code")
            /\ UNCHANGED <<students, qr_sessions>>
       ELSE IF ActiveEnrollmentIndex(s) = 0
       THEN /\ last' = Rejected("scan", "not_enrolled")
            /\ UNCHANGED <<students, qr_sessions>>
       ELSE LET q == qr_sessions[1]
                rid == enrollments[ActiveEnrollmentIndex(s)].student_record_id
                idx == RecordIndex(students, rid)
            IN IF idx = 0
               THEN /\ last' = Rejected("scan", "record_not_found")
                    /\ UNCHANGED <<students, qr_sessions>>
               ELSE /\ students' = [students EXCEPT
                                       ![idx].attendance = HttpScanCell(@, q.session_number)]
                    /\ qr_sessions' = <<AddScanned(q, rid)>>
                    /\ last' = Result("scan", "ok", rid, q.session_number, 0, 0)
    /\ statistics' = IF last'.result = "ok"
                     THEN ClassDocumentStatistics(OneDate(students')) ELSE statistics
    /\ UNCHANGED <<impl, enrollment_mode, enrollments, now, pending>>

(* --------------------------------- stop -------------------------------- *)

\* the records stop marks absent: for student in students: if id in active and id not in scanned
FileAbsentees(studs, q) ==
    {k \in 1..Len(studs) : studs[k].id \in ActiveRecordIds /\ studs[k].id \notin ScannedSet(q)}

\* DatabaseManager.stop_qr_session
FileStop(teacher) ==
    /\ impl = "file"
    /\ IF FileNoActiveSession
       THEN /\ last' = Rejected("stop", "no_active_session")
            /\ UNCHANGED <<students, qr_sessions>>
       ELSE IF qr_sessions[1].teacher_id # teacher
       THEN /\ last' = Rejected("stop", "unauthorized")
            /\ UNCHANGED <<students, qr_sessions>>
       ELSE LET q == qr_sessions[1]
                absent == FileAbsentees(students, q)
            IN /\ students' = [k \in 1..Len(students) |->
                                 IF k \in absent
                                 THEN [students[k] EXCEPT
                                          !.attendance = FileStopCell(@, q.session_number)]
                                 ELSE students[k]]
               /\ qr_sessions' = <<[q EXCEPT !.status = "stopped"]>>
               /\ last' = Result("stop", "ok", 0, q.session_number,
                                 Cardinality(ScannedSet(q)), Cardinality(absent))
    /\ UNCHANGED <<impl, enrollment_mode, enrollments, now, statistics, pending>>

\* MongoDBManager.stop_qr_session
MongoStop(teacher, code) ==
    /\ impl = "mongo"
    /\ IF ActiveSessionIndex = 0
       THEN /\ last' = Rejected("stop", "no_active_session")
            /\ UNCHANGED <<students, qr_sessions>>
       ELSE LET k == ActiveSessionIndex
                loaded == MongoGetQRSession(code)
                q == loaded[k]
            IN IF q.teacher_id # teacher
               THEN /\ last' = Rejected("stop", "unauthorized")
                    /\ qr_sessions' = loaded
                    /\ UNCHANGED students
               ELSE LET class_students == MongoGetClassById
                        absent == FileAbsentees(class_students, q)
                        marked == [j \in 1..Len(class_students) |->
                                     IF j \in absent
                                     THEN [class_students[j] EXCEPT
                                            !.attendance = MongoStopCell(@, q.session_number)]
                                     ELSE class_students[j]]
                    IN \* classes.update_one filters on teacher_id = the caller
                       /\ students' = IF teacher = Owner THEN marked ELSE students
                       /\ qr_sessions' = [loaded EXCEPT ![k].status = "stopped"]
                       /\ last' = Result("stop", "ok", 0, q.session_number,
                                         Cardinality(ScannedSet(q)), Cardinality(absent))
    /\ UNCHANGED <<impl, enrollment_mode, enrollments, now, statistics, pending>>

\* main.stop_qr_session (POST /qr/stop-session)
HttpStop(teacher) ==
    /\ impl = "http"
    /\ IF Len(qr_sessions) = 0
       THEN /\ last' = Rejected("stop", "no_active_session")
            /\ UNCHANGED <<students, qr_sessions>>
       ELSE IF qr_sessions[1].teacher_id # teacher
       THEN /\ last' = Rejected("stop", "unauthorized")
            /\ UNCHANGED <<students, qr_sessions>>
       ELSE LET q == qr_sessions[1]
                visible == MongoGetClass
                absent == {k \in 1..Len(visible) : visible[k].id \notin ScannedSet(q)}
            IN \* the roster returned by get_class is written back as the whole document
               /\ students' = [k \in 1..Len(visible) |->
                                 IF k \in absent
                                 THEN [visible[k] EXCEPT
                                          !.attendance = HttpStopCell(@, q.session_number)]
                                 ELSE visible[k]]
               /\ qr_sessions' = <<>>
               /\ last' = Result("stop", "ok", 0, q.session_number,
                                 Cardinality(ScannedSet(q)), Cardinality(absent))
    /\ statistics' = IF last'.result = "ok"
                     THEN ClassDocumentStatistics(OneDate(students')) ELSE statistics
    /\ UNCHANGED <<impl, enrollment_mode, enrollments, now, pending>>

(* -------------------------- requests in flight ------------------------- *)

\* a scan between its reads and its writes: session_data and class_data as it read them
ScanRequest(s, rid, session, class) ==
    [kind |-> "scan", phase |-> "read", student |-> s, record |-> rid,
     session |-> session, class |-> class]

\* a poll that found the code due for rotation: session_data as it read it
PollRequest(session) ==
    [kind |-> "poll", phase |-> "read", student |-> Owner, record |-> 0,
     session |-> session, class |-> <<>>]

\* the request after its writes
Done(p) == [p EXCEPT !.phase = "done", !.session = <<>>, !.class = <<>>]

InFlight(kind) == {p \in pending : p.kind = kind /\ p.phase = "read"}

\* the class document read again at the time of the write
ClassReadAgain(p) == IF impl = "file" THEN students ELSE MongoGetClassById

\* the document the scan writes back: class_data as the request read it
WrittenClass(p) == p.class

\* DatabaseManager.scan_qr_code up to the read of the class document
FileScanRead(s, submitted) ==
    /\ impl = "file"
    /\ ~\E p \in pending : p.kind = "scan" /\ p.student = s
    /\ IF /\ ~FileNoActiveSession
          /\ qr_sessions[1].current_code = submitted
          /\ ActiveEnrollmentIndex(s) # 0
          /\ RecordIndex(students, enrollments[ActiveEnrollmentIndex(s)].student_record_id) # 0
       THEN LET rid == enrollments[ActiveEnrollmentIndex(s)].student_record_id
            IN /\ pending' = pending \cup {ScanRequest(s, rid, qr_sessions, students)}
               /\ last' = Result("scan_read", "ok", rid, qr_sessions[1].session_number, 0, 0)
               /\ UNCHANGED <<impl, enrollment_mode, students, enrollments, qr_sessions, now,
                              statistics>>
       ELSE FileScan(s, submitted)

\* DatabaseManager.scan_qr_code from write_json(class_file, class_data) on
FileScanWrite(p) ==
    /\ impl = "file"
    /\ p \in InFlight("scan")
    /\ LET q == p.session[1]
           class_data == WrittenClass(p)
           idx == RecordIndex(class_data, p.record)
       IN /\ students' = [class_data EXCEPT
                             ![idx].attendance = FileScanCell(@, q.session_number)]
          /\ qr_sessions' = <<AddScanned(q, p.record)>>
          /\ last' = Result("scan", "ok", p.record, q.session_number, 0, 0)
    /\ pending' = (pending \ {p}) \cup {Done(p)}
    /\ UNCHANGED <<impl, enrollment_mode, enrollments, now, statistics>>

\* MongoDBManager.scan_qr_code up to get_class_by_id
MongoScanRead(s, submitted, code) ==
    /\ impl = "mongo"
    /\ ~\E p \in pending : p.kind = "scan" /\ p.student = s
    /\ LET k == ActiveSessionIndex
           loaded == MongoGetQRSession(code)
       IN IF /\ k # 0
             /\ loaded[k].current_code = submitted
             /\ ActiveEnrollmentIndex(s) # 0
             /\ RecordIndex(MongoGetClassById,
                            enrollments[ActiveEnrollmentIndex(s)].student_record_id) # 0
          THEN LET rid == enrollments[ActiveEnrollmentIndex(s)].student_record_id
               IN /\ pending' = pending \cup
                                   {ScanRequest(s, rid, <<loaded[k]>>, MongoGetClassById)}
                  /\ qr_sessions' = loaded
                  /\ last' = Result("scan_read", "ok", rid, loaded[k].session_number, 0, 0)
                  /\ UNCHANGED <<impl, enrollment_mode, students, enrollments, now, statistics>>
          ELSE MongoScan(s, submitted, code)

\* MongoDBManager.scan_qr_code from classes.update_one on: both updates $set what the
\* request read, the second one on the session that is active now
MongoScanWrite(p) ==
    /\ impl = "mongo"
    /\ p \in InFlight("scan")
    /\ LET q == p.session[1]
           class_students == WrittenClass(p)
           idx == RecordIndex(class_students, p.record)
           k == ActiveSessionIndex
       IN /\ students' = [class_students EXCEPT
                             ![idx].attendance = MongoScanCell(@, q.session_number)]
          /\ qr_sessions' = IF k = 0 THEN qr_sessions
                            ELSE [qr_sessions EXCEPT ![k].scanned_students =
                                     AddScanned(q, p.record).scanned_students]
          /\ last' = Result("scan", "ok", p.record, q.session_number, 0, 0)
    /\ pending' = (pending \ {p}) \cup {Done(p)}
    /\ UNCHANGED <<impl, enrollment_mode, enrollments, now, statistics>>

\* DatabaseManager.get_qr_session up to the comparison of elapsed with the interval
FilePollRead(code) ==
    /\ impl = "file"
    /\ InFlight("poll") = {}
    /\ IF ~FileNoActiveSession /\ RotationDue(qr_sessions[1])
       THEN /\ pending' = pending \cup {PollRequest(qr_sessions)}
            /\ last' = Result("poll_read", "ok", 0, qr_sessions[1].session_number, 0, 0)
            /\ UNCHANGED <<impl, enrollment_mode, students, enrollments, qr_sessions, now,
                           statistics>>
       ELSE FilePoll(code)

\* DatabaseManager.get_qr_session: write_json(session_file, session_data)
FilePollWrite(p, code) ==
    /\ impl = "file"
    /\ p \in InFlight("poll")
    /\ qr_sessions' = <<Rotated(p.session[1], code)>>
    /\ last' = Result("poll", "ok", 0, p.session[1].session_number, 0, 0)
    /\ pending' = pending \ {p}
    /\ UNCHANGED <<impl, enrollment_mode, students, enrollments, now, statistics>>

\* MongoDBManager.get_qr_session up to the comparison in _maybe_rotate_qr_session
MongoPollRead(code) ==
    /\ impl = "mongo"
    /\ InFlight("poll") = {}
    /\ IF ActiveSessionIndex # 0 /\ RotationDue(qr_sessions[ActiveSessionIndex])
       THEN /\ pending' = pending \cup {PollRequest(<<qr_sessions[ActiveSessionIndex]>>)}
            /\ last' = Result("poll_read", "ok", 0,
                              qr_sessions[ActiveSessionIndex].session_number, 0, 0)
            /\ UNCHANGED <<impl, enrollment_mode, students, enrollments, qr_sessions, now,
                           statistics>>
       ELSE MongoPoll(code)

\* MongoDBManager._maybe_rotate_qr_session: update_one $set of the code and its time
MongoPollWrite(p, code) ==
    /\ impl = "mongo"
    /\ p \in InFlight("poll")
    /\ qr_sessions' = IF ActiveSessionIndex = 0 THEN qr_sessions
                      ELSE [qr_sessions EXCEPT ![ActiveSessionIndex] = Rotated(@, code)]
    /\ last' = Result("poll", "ok", 0, p.session[1].session_number, 0, 0)
    /\ pending' = pending \ {p}
    /\ UNCHANGED <<impl, enrollment_mode, students, enrollments, now, statistics>>

(* ------------------------------ enrollment ----------------------------- *)

\* DatabaseManager._generate_student_record_id: the clock in milliseconds, which has
\* moved on since every id issued by an earlier call
GenerateStudentRecordId ==
    SetMax({0} \cup {enrollments[k].student_record_id : k \in 1..Len(enrollments)}
               \cup {students[k].id : k \in 1..Len(students)}) + 1

\* DatabaseManager.enroll_student
FileEnroll(s) ==
    /\ impl = "file"
    /\ LET anyIdx == FirstIndex({k \in 1..Len(enrollments) : enrollments[k].student_id = s})
       IN IF ActiveEnrollmentIndex(s) # 0
          THEN /\ last' = Rejected("enroll", "already_enrolled")
               /\ UNCHANGED <<students, enrollments>>
          ELSE IF anyIdx # 0
          THEN LET rid == enrollments[anyIdx].student_record_id
                   idx == RecordIndex(students, rid)
               IN /\ enrollments' = [enrollments EXCEPT ![anyIdx].status = "active"]
                  /\ students' = IF idx # 0
                                 THEN [students EXCEPT ![idx].rollNo = RollOf(s)]
                                 ELSE Append(students, StudentRecord(rid, RollOf(s), NoCell))
                  /\ last' = Result("enroll", "re-enrolled", rid, 0, 0, 0)
          ELSE LET rid == GenerateStudentRecordId
               IN /\ enrollments' = Append(enrollments, Enrollment(s, rid, "active"))
                  /\ students' = Append(students, StudentRecord(rid, RollOf(s), NoCell))
                  /\ last' = Result("enroll", "enrolled", rid, 0, 0, 0)
    /\ UNCHANGED <<impl, enrollment_mode, qr_sessions, now, statistics, pending>>

\* MongoDBManager.enroll_student (also behind POST /student/enroll)
MongoEnroll(s) ==
    /\ impl \in {"mongo", "http"}
    /\ LET prevIdx == FirstIndex({k \in 1..Len(enrollments) :
                                     /\ enrollments[k].student_id = s
                                     /\ enrollments[k].status = "inactive"})
       IN IF ActiveEnrollmentIndex(s) # 0
          THEN /\ last' = Rejected("enroll", "already_enrolled")
               /\ UNCHANGED <<students, enrollments>>
          ELSE IF prevIdx # 0
          THEN /\ enrollments' = [enrollments EXCEPT ![prevIdx].status = "active"]
               /\ UNCHANGED students
               /\ last' = Result("enroll", "re-enrolled",
                                 enrollments[prevIdx].student_record_id, 0, 0, 0)
          ELSE LET rid == Len(MongoGetClassById) + 1
               IN /\ students' = SortStudentsByRoll(
                                    Append(students, StudentRecord(rid, RollOf(s), NoCell)))
                  /\ enrollments' = Append(enrollments, Enrollment(s, rid, "active"))
                  /\ last' = Result("enroll", "enrolled", rid, 0, 0, 0)
    /\ UNCHANGED <<impl, enrollment_mode, qr_sessions, now, statistics, pending>>

\* DatabaseManager.unenroll_student
FileUnenroll(s) ==
    /\ impl = "file"
    /\ IF ActiveEnrollmentIndex(s) = 0
       THEN /\ last' = Rejected("unenroll", "not_enrolled")
            /\ UNCHANGED enrollments
       ELSE /\ enrollments' = [enrollments EXCEPT ![ActiveEnrollmentIndex(s)].status = "inactive"]
            /\ last' = Result("unenroll", "ok",
                              enrollments[ActiveEnrollmentIndex(s)].student_record_id, 0, 0, 0)
    /\ UNCHANGED <<impl, enrollment_mode, students, qr_sessions, now, statistics, pending>>

\* MongoDBManager.unenroll_student (also behind DELETE /student/unenroll/{class_id})
MongoUnenroll(s) ==
    /\ impl \in {"mongo", "http"}
    /\ IF ActiveEnrollmentIndex(s) = 0
       THEN /\ last' = Rejected("unenroll", "not_enrolled")
            /\ UNCHANGED enrollments
       ELSE /\ enrollments' = [enrollments EXCEPT ![ActiveEnrollmentIndex(s)].status = "inactive"]
            /\ last' = Result("unenroll", "ok",
                              enrollments[ActiveEnrollmentIndex(s)].student_record_id, 0, 0, 0)
    /\ UNCHANGED <<impl, enrollment_mode, students, qr_sessions, now, statistics, pending>>

(* ----------------------------- update_class ---------------------------- *)

\* {s.get('id') for s in students}
RecordIds(studs) == {studs[k].id : k \in 1..Len(studs)}

\* DatabaseManager.get_class: the roster the teacher sees
FileGetClass ==
    IF enrollment_mode = "enrollment_via_id"
    THEN FilterByIds(students, ActiveRecordIds) ELSE students

\* the students of the request: the roster the teacher was shown, less the record
\* the teacher removed (0: none removed)
Incoming(visible, removed) == FilterByIds(visible, RecordIds(visible) \ {removed})

\* DatabaseManager.update_class
FileUpdateClass(removed) ==
    /\ impl = "file"
    /\ LET incoming == Incoming(FileGetClass, removed)
           new_ids == RecordIds(incoming)
           deleted_ids == RecordIds(students) \ new_ids
       IN IF enrollment_mode = "enrollment_via_id"
          THEN /\ enrollments' =
                     [k \in 1..Len(enrollments) |->
                        IF /\ enrollments[k].student_record_id \in deleted_ids
                           /\ enrollments[k].status = "active"
                        THEN [enrollments[k] EXCEPT !.status = "inactive"]
                        ELSE enrollments[k]]
               /\ students' =
                     [k \in 1..Len(students) |->
                        IF students[k].id \in new_ids
                        THEN incoming[SetMax({j \in 1..Len(incoming) :
                                                 incoming[j].id = students[k].id})]
                        ELSE students[k]]
          ELSE /\ students' = incoming
               /\ UNCHANGED enrollments
    /\ last' = Result("update", "ok", removed, 0, 0, 0)
    /\ statistics' = ClassDocumentStatistics(OneDate(students'))
    /\ UNCHANGED <<impl, enrollment_mode, qr_sessions, now, pending>>

\* MongoDBManager.update_class (also behind PUT /classes/{class_id})
MongoUpdateClass(removed) ==
    /\ impl \in {"mongo", "http"}
    /\ LET incoming == Incoming(MongoGetClass, removed)
           deleted_student_ids == RecordIds(students) \ RecordIds(incoming)
       IN /\ enrollments' =
                [k \in 1..Len(enrollments) |->
                   IF enrollments[k].student_record_id \in deleted_student_ids
                   THEN [enrollments[k] EXCEPT !.status = "inactive"]
                   ELSE enrollments[k]]
          /\ students' = SortStudentsByRoll(incoming)
    /\ last' = Result("update", "ok", removed, 0, 0, 0)
    /\ statistics' = ClassDocumentStatistics(OneDate(students'))
    /\ UNCHANGED <<impl, enrollment_mode, qr_sessions, now, pending>>

(* ------------------------- statistics requests ------------------------- *)

\* what the caller gets when the function raises
Raised(op, error) == [op |-> op, error |-> error]

\* len(sessions) and the loop over sessions raise TypeError when the value is a number
RaisesTypeError(attendance) == \E d \in 1..Len(attendance) : NotAList(attendance[d])

\* DatabaseManager.get_student_class_details
FileStudentStatistics(k, thresholds) ==
    /\ impl = "file"
    /\ last' = IF RaisesTypeError(students[k].attendance)
                THEN Raised("student_statistics", "TypeError")
                ELSE [op |-> "student_statistics", record |-> students[k].id,
                      thresholds |-> thresholds,
                      statistics |-> CalculateStudentStatistics(students[k], thresholds)]
    /\ UNCHANGED <<impl, enrollment_mode, students, enrollments, qr_sessions, now, statistics, pending>>

\* MongoDBManager.get_student_class_details
MongoStudentStatistics(k, thresholds) ==
    /\ impl \in {"mongo", "http"}
    /\ last' = [op |-> "student_statistics", record |-> students[k].id,
                thresholds |-> thresholds,
                statistics |-> MongoCalculateStudentStatistics(students[k], thresholds)]
    /\ UNCHANGED <<impl, enrollment_mode, students, enrollments, qr_sessions, now, statistics, pending>>

\* the statistics DatabaseManager stores with the class
FileClassStatistics(thresholds) ==
    /\ impl = "file"
    /\ last' = IF \E j \in 1..Len(students) : RaisesTypeError(students[j].attendance)
                THEN Raised("class_statistics", "TypeError")
                ELSE [op |-> "class_statistics", thresholds |-> thresholds,
                      statistics |-> CalculateClassStatistics(students, thresholds)]
    /\ UNCHANGED <<impl, enrollment_mode, students, enrollments, qr_sessions, now, statistics, pending>>

\* the statistics MongoDBManager stores with the class
MongoClassStatistics ==
    /\ impl \in {"mongo", "http"}
    /\ last' = IF \E j \in 1..Len(students) : RaisesTypeError(students[j].attendance)
                THEN Raised("mongo_class_statistics", "TypeError")
                ELSE [op |-> "mongo_class_statistics",
                      statistics |-> MongoCalculateClassStatistics(students)]
    /\ UNCHANGED <<impl, enrollment_mode, students, enrollments, qr_sessions, now, statistics, pending>>

\* main.update_multi_session_attendance (PUT /classes/{class_id}/multi-session-attendance)
UpdateMultiSessionAttendance(k, date, sessions) ==
    /\ impl = "http"
    /\ k <= Len(MongoGetClass)
    /\ LET class_data == MongoGetClass
           valid_sessions == ValidSessions(sessions)
           saved == [class_data EXCEPT ![k].attendance[date] =
                        IF Len(valid_sessions) > 0 THEN SessionsCell(valid_sessions)
                        ELSE NoCell]
       IN /\ students' = saved
          /\ last' = [op |-> "multi_session", record |-> class_data[k].id, date |-> date,
                      cleared |-> Len(valid_sessions) = 0
                                     /\ ~IsNone(class_data[k].attendance[date]),
                      statistics |-> MultiSessionStatistics(saved)]
    /\ statistics' = last'.statistics
    /\ UNCHANGED <<impl, enrollment_mode, enrollments, qr_sessions, now, pending>>

\* valid_sessions of DatabaseManager.update_multi_session_attendance: the sessions of
\* the request whose status is not None
FileValidSessions(sessions) == SelectSeq(sessions, LAMBDA s : s.status # Null)

\* DatabaseManager.update_multi_session_attendance
FileUpdateMultiSessionAttendance(k, date, sessions) ==
    /\ impl = "file"
    /\ k <= Len(students)
    /\ LET valid_sessions == FileValidSessions(sessions)
           saved == [students EXCEPT ![k].attendance[date] =
                        IF Len(valid_sessions) > 0 THEN SessionsCell(valid_sessions)
                        ELSE NoCell]
       IN /\ students' = saved
          /\ statistics' = CalculateClassStatistics(saved, NoThresholds)
          /\ last' = [op |-> "multi_session", record |-> students[k].id, date |-> date,
                      cleared |-> Len(valid_sessions) = 0
                                     /\ ~IsNone(students[k].attendance[date]),
                      statistics |-> statistics']
    /\ UNCHANGED <<impl, enrollment_mode, enrollments, qr_sessions, now, pending>>

\* the number DatabaseManager.start_qr_session gives a session of the date
FileSessionNumber(date) ==
    /\ impl = "file"
    /\ last' = IF \E j \in 1..Len(students) : NotAList(students[j].attendance[date])
                THEN Raised("session_number", "TypeError")
                ELSE [op |-> "session_number", date |-> date,
                      session_number |-> CountValidSessionsForDate(OnDate(students, date)) + 1]
    /\ UNCHANGED <<impl, enrollment_mode, students, enrollments, qr_sessions, now, statistics, pending>>

\* the number main.start_qr_session gives a session of the date
HttpSessionNumber(date) ==
    /\ impl = "http"
    /\ last' = IF \E j \in 1..Len(MongoGetClass) : NotAList(MongoGetClass[j].attendance[date])
                THEN Raised("session_number", "TypeError")
                ELSE [op |-> "session_number", date |-> date,
                      session_number |->
                          GetCurrentSessionNumberForDate(OnDate(MongoGetClass, date))]
    /\ UNCHANGED <<impl, enrollment_mode, students, enrollments, qr_sessions, now, statistics, pending>>

(* ----------------------------- specification --------------------------- *)

Start ==
    \E teacher \in Teachers, interval \in RotationIntervals, code \in Codes :
        \/ FileStart(teacher, interval, code)
        \/ MongoStart(teacher, interval, code)
        \/ HttpStart(teacher, interval, code)

Poll ==
    \E teacher \in Teachers, code \in Codes :
        \/ FilePoll(code)
        \/ MongoPoll(code)
        \/ HttpPoll(teacher, code)

Scan ==
    \E s \in StudentIds, submitted \in Codes, code \in Codes :
        \/ FileScan(s, submitted)
        \/ MongoScan(s, submitted, code)
        \/ HttpScan(s, submitted)

Stop ==
    \E teacher \in Teachers, code \in Codes :
        \/ FileStop(teacher)
        \/ MongoStop(teacher, code)
        \/ HttpStop(teacher)

Enroll == \E s \in Movers : FileEnroll(s) \/ MongoEnroll(s)

\* an unenrollment that also deletes the student's record from the class
UnenrollRemovingRecord ==
    \E s \in Movers :
        /\ ActiveEnrollmentIndex(s) # 0
        /\ LET k == ActiveEnrollmentIndex(s)
               rid == enrollments[k].student_record_id
           IN /\ enrollments' = [enrollments EXCEPT ![k].status = "inactive"]
              /\ students' = FilterByIds(students, RecordIds(students) \ {rid})
              /\ last' = Result("unenroll", "ok", rid, 0, 0, 0)
        /\ UNCHANGED <<impl, enrollment_mode, qr_sessions, now, statistics, pending>>

Unenroll == \E s \in Movers : FileUnenroll(s) \/ MongoUnenroll(s)

Next == Tick \/ Start \/ Poll \/ Scan \/ Stop \/ Enroll \/ Unenroll

Spec == Init /\ [][Next]_vars

\* enrollment_mode of a class document (ClassRequest.enrollment_mode)
EnrollmentModes == {"enrollment_via_id", "manual_entry"}

\* classes of either mode: the roster of a manual_entry class is typed in by the
\* teacher, so its records exist with no enrollment behind them
InitModes ==
    /\ impl \in Impls
    /\ enrollment_mode \in EnrollmentModes
    /\ \E c1 \in InitCellsOther :
          LET stored == <<StudentRecord(1, RollOf("s1"), c1),
                          StudentRecord(2, RollOf("s2"), NoCell)>>
          IN students = IF impl = "file" THEN stored ELSE SortStudentsByRoll(stored)
    /\ enrollments = IF enrollment_mode = "manual_entry" THEN <<>>
                     ELSE <<Enrollment("s1", 1, "active"), Enrollment("s2", 2, "active")>>
    /\ qr_sessions = <<>>
    /\ statistics = StoredStatistics(students)
    /\ pending = {}
    /\ now = 0
    /\ last = Rejected("init", "ok")

SpecModes == InitModes /\ [][Next]_vars

\* the record the teacher deletes from the roster before saving (0: none)
Removals == {0, 1, 2}

UpdateClass == \E removed \in Removals : FileUpdateClass(removed) \/ MongoUpdateClass(removed)

\* classes whose records hold nothing or a manual 'A' for the date
InitRoster ==
    /\ Init
    /\ \A k \in 1..Len(students) : students[k].attendance \in InitCellsOther

\* the QR protocol and the enrollments, with the teacher saving the class between
NextRoster == Start \/ Scan \/ Stop \/ Enroll \/ Unenroll \/ UpdateClass

SpecRoster == InitRoster /\ [][NextRoster]_vars

\* a student account that was never enrolled in the class
Newcomers == {"s3"}

EnrollNewcomer == \E s \in Newcomers : FileEnroll(s) \/ MongoEnroll(s)

\* a class with both students enrolled
InitIds ==
    /\ InitRoster
    /\ Len(students) = 2

\* enrollments, unenrollments and re-enrollments, with the teacher removing records
NextIds == Enroll \/ Unenroll \/ EnrollNewcomer \/ UpdateClass

SpecIds == InitIds /\ [][NextIds]_vars

\* the values the attendance map of the first record holds for a date
StatsCells ==
    { NoCell, Simple("P"), Simple("A"), Simple("L"),
      Counted("P", 6), Counted("P", 9),
      SessionsCell(<<Entry(SessionId(1), PlainName(1), Null)>>),
      SessionsCell(<<Entry(SessionId(1), PlainName(1), "P"),
                     Entry(SessionId(2), PlainName(2), Null)>>),
      SessionsCell(<<Entry(SessionId(1), PlainName(1), "A"),
                     Entry(SessionId(2), PlainName(2), "L")>>) }

\* and those of the second record
StatsOtherCells ==
    { NoCell, Simple("A"), SessionsCell(<<Entry(SessionId(1), PlainName(1), Null)>>) }

\* the sessions a teacher sends to the multi-session endpoint
SessionInputs ==
    { <<>>,
      <<Entry(SessionId(1), PlainName(1), "P"), Entry(SessionId(2), PlainName(2), Null)>> }

\* the thresholds of the class
ThresholdChoices == {NoThresholds, Thresholds(75, 50, 25, 25), Thresholds(75, 50, 25, 50)}

\* a class of two enrolled students with attendance over MaxDates dates
InitStats ==
    /\ impl \in Impls
    /\ enrollment_mode = "enrollment_via_id"
    /\ \E m1 \in [1..MaxDates -> StatsCells], m2 \in [1..MaxDates -> StatsOtherCells] :
          LET stored == <<StudentRecord(1, RollOf("s1"), m1), StudentRecord(2, RollOf("s2"), m2)>>
          IN students = IF impl = "file" THEN stored ELSE SortStudentsByRoll(stored)
    /\ enrollments = <<Enrollment("s1", 1, "active"), Enrollment("s2", 2, "active")>>
    /\ qr_sessions = <<>>
    /\ statistics = ClassDocumentStatistics(students)
    /\ pending = {}
    /\ now = 0
    /\ last = Rejected("init", "ok")

NextStats ==
    \/ \E k \in 1..2, thresholds \in ThresholdChoices :
          FileStudentStatistics(k, thresholds) \/ MongoStudentStatistics(k, thresholds)
    \/ \E thresholds \in ThresholdChoices : FileClassStatistics(thresholds)
    \/ MongoClassStatistics
    \/ \E k \in 1..2, date \in 1..MaxDates, sessions \in SessionInputs :
          UpdateMultiSessionAttendance(k, date, sessions)
             \/ FileUpdateMultiSessionAttendance(k, date, sessions)
    \/ \E date \in 1..MaxDates : FileSessionNumber(date) \/ HttpSessionNumber(date)

SpecStats == InitStats /\ [][NextStats]_vars

\* the values of unrecognized shape, next to recognized ones
ShapeCells ==
    { NoCell, Simple("P"), Simple("X"), Counted("P", 2), Counted("X", 2),
      OtherObject, SessionsNotAList,
      SessionsCell(<<Entry(SessionId(1), PlainName(1), "P"),
                     Entry(SessionId(2), PlainName(2), "A")>>) }

ShapeOtherCells == {NoCell, Simple("A")}

\* a class of two enrolled students whose first record may hold unrecognized values
InitShapes ==
    /\ impl \in Impls
    /\ enrollment_mode = "enrollment_via_id"
    /\ \E m1 \in [1..MaxDates -> ShapeCells], m2 \in [1..MaxDates -> ShapeOtherCells] :
          LET stored == <<StudentRecord(1, RollOf("s1"), m1), StudentRecord(2, RollOf("s2"), m2)>>
          IN students = IF impl = "file" THEN stored ELSE SortStudentsByRoll(stored)
    /\ enrollments = <<Enrollment("s1", 1, "active"), Enrollment("s2", 2, "active")>>
    /\ qr_sessions = <<>>
    /\ statistics = ClassDocumentStatistics(<<>>)
    /\ pending = {}
    /\ now = 0
    /\ last = Rejected("init", "ok")

\* the statistics and the numbers asked for such a class
NextShapes ==
    \/ \E k \in 1..2, thresholds \in ThresholdChoices :
          FileStudentStatistics(k, thresholds) \/ MongoStudentStatistics(k, thresholds)
    \/ \E thresholds \in ThresholdChoices : FileClassStatistics(thresholds)
    \/ MongoClassStatistics
    \/ \E date \in 1..MaxDates : FileSessionNumber(date) \/ HttpSessionNumber(date)

SpecShapes == InitShapes /\ [][NextShapes]_vars

\* the managers, whose methods the callers may run at the same time; the endpoints of
\* main.py are coroutines without an await between their reads and their writes
RaceImpls == {"file", "mongo"}

\* two enrolled students and the first session of the date, just started
InitRace ==
    /\ impl \in RaceImpls
    /\ enrollment_mode = "enrollment_via_id"
    /\ enrollments = <<Enrollment("s1", 1, "active"), Enrollment("s2", 2, "active")>>
    /\ LET stored == <<StudentRecord(1, RollOf("s1"), NoCell),
                       StudentRecord(2, RollOf("s2"), NoCell)>>
       IN /\ students = IF impl = "file" THEN stored ELSE SortStudentsByRoll(stored)
          /\ statistics = StoredStatistics(stored)
    /\ qr_sessions = <<QRSession(Owner, 1, 1, 1, 0)>>
    /\ pending = {}
    /\ now = 0
    /\ last = Result("start", "ok", 0, 1, 0, 0)

ScanRead ==
    \E s \in StudentIds, submitted \in Codes, code \in Codes :
        FileScanRead(s, submitted) \/ MongoScanRead(s, submitted, code)

ScanWrite == \E p \in pending : FileScanWrite(p) \/ MongoScanWrite(p)

PollRead == \E code \in Codes : FilePollRead(code) \/ MongoPollRead(code)

PollWrite == \E p \in pending, code \in Codes : FilePollWrite(p, code) \/ MongoPollWrite(p, code)

StopRace == \E code \in Codes : FileStop(Owner) \/ MongoStop(Owner, code)

\* scans, polls and the stop of the session, each read and each write a step
NextRace == Tick \/ ScanRead \/ ScanWrite \/ PollRead \/ PollWrite \/ StopRace

SpecRace == InitRace /\ [][NextRace]_vars

\* a class with no attendance stored for the date
InitFresh ==
    /\ Init
    /\ \A k \in 1..Len(students) : students[k].attendance = NoCell

SpecFresh == InitFresh /\ [][Next]_vars

\* cells of the record the verdict is applied to: empty or a simple status
VerdictCells == {NoCell, Simple("P"), Simple("A"), Simple("L")}

\* cells of the other record of the class, which carry the day's session count
VerdictOtherCells ==
    { NoCell, Simple("A"),
      SessionsCell(<<Entry(SessionId(1), PlainName(1), "P"),
                     Entry(SessionId(2), PlainName(2), "A")>>) }

\* the state a start by the owner leaves: two enrolled students and an active
\* session whose number DatabaseManager and main.py computed from the stored
\* cells, and MongoDBManager from the sessions stopped before it
InitVerdict ==
    /\ impl \in Impls
    /\ enrollment_mode = "enrollment_via_id"
    /\ enrollments = <<Enrollment("s1", 1, "active"), Enrollment("s2", 2, "active")>>
    /\ pending = {}
    /\ now = 0
    /\ \E c1 \in VerdictCells, c2 \in VerdictOtherCells, n \in 1..MaxVerdictNumber :
          LET stored == <<StudentRecord(1, RollOf("s1"), c1),
                          StudentRecord(2, RollOf("s2"), c2)>>
              studs == IF impl = "file" THEN stored ELSE SortStudentsByRoll(stored)
          IN /\ impl = "file" => n = CountValidSessionsForDate(studs) + 1
             /\ impl = "http" => n = GetCurrentSessionNumberForDate(studs)
             /\ students = studs
             /\ statistics = StoredStatistics(studs)
             /\ qr_sessions =
                   IF impl = "mongo"
                   THEN [k \in 1..n |->
                           IF k < n
                           THEN [QRSession(Owner, k, 1, 1, 0) EXCEPT !.status = "stopped"]
                           ELSE QRSession(Owner, n, 1, 1, 0)]
                   ELSE <<QRSession(Owner, n, 1, 1, 0)>>
             /\ last = Result("start", "ok", 0, n, 0, 0)

\* scans and the stop of the one session
NextVerdict == Tick \/ Scan \/ Stop

SpecVerdict == InitVerdict /\ [][NextVerdict]_vars

(* -------------------------------- claims ------------------------------- *)

\* the stored QR sessions with status active
ActiveSessions == {k \in 1..Len(qr_sessions) : qr_sessions[k].status = "active"}

\* the step is an operation of the kind: every operation reports in last, and
\* only the clock leaves last as it was
StepOf(op) == last'.op = op /\ now' = now

\* the attendance cell of the record with the id; NoCell when the record is gone
CellOf(studs, rid) ==
    IF RecordIndex(studs, rid) = 0 THEN NoCell
    ELSE studs[RecordIndex(studs, rid)].attendance

\* the valid sessions a cell counts for: 1 for a simple cell, count for a counted
\* one, the entries with a status for a canonical one
ValidSessionsOf(c) ==
    IF HasSessions(c) THEN ValidCount(c.sessions)
    ELSE IF HasStatus(c) THEN (IF c.status # Null THEN c.count ELSE 0)
    ELSE IF IsStr(c) THEN 1
    ELSE 0

\* 1 + the largest number of valid sessions over all student records
NextSessionNumber(studs) ==
    1 + SetMax({0} \cup {ValidSessionsOf(studs[k].attendance) : k \in 1..Len(studs)})

\* the status a cell records for session n (Null: none); for n = 1 the single
\* status of a simple or counted cell, or the first entry of a canonical one
StatusFor(c, n) ==
    IF IsStr(c) THEN (IF n = 1 THEN c.status ELSE Null)
    ELSE IF HasStatus(c) THEN (IF n <= c.count THEN c.status ELSE Null)
    ELSE IF HasSessions(c) THEN
        IF SessionId(n) \in IdsOf(c.sessions)
        THEN c.sessions[FirstIndex({k \in 1..Len(c.sessions) :
                                       c.sessions[k].id = SessionId(n)})].status
        ELSE IF n = 1 /\ Len(c.sessions) > 0 THEN c.sessions[1].status
        ELSE Null
    ELSE Null

\* C1: the session number a successful start assigns is 1 + the largest number of
\* valid sessions any stored student record holds for the date (1 when there is
\* no data or no student).
C1_StartNumbersFromAttendance ==
    (last.op = "start" /\ last.result = "ok")
        => last.session_number = NextSessionNumber(students)

\* C2: after a successful scan by record r in the active session n, the cell of r
\* has status P for session n, whatever shape the cell had before.
C2_ScanMarksPresent ==
    (last.op = "scan" /\ last.result = "ok")
        => StatusFor(CellOf(students, last.record), last.session_number) = "P"

\* C3: a successful stop of session n leaves every record that has an active
\* enrollment and is not in scanned_students with status A for session n, and
\* reports absent_count = the number of those records and scanned_count = the
\* size of scanned_students.
C3_StopMarksAbsent ==
    [][ \A teacher \in Teachers, code \in Codes :
          ( /\ ActiveSessions # {}
            /\ FileStop(teacher) \/ MongoStop(teacher, code) \/ HttpStop(teacher)
            /\ last'.result = "ok" )
          => LET q == qr_sessions[ActiveSessionIndex]
                 unscanned == {rid \in ActiveRecordIds :
                                  /\ RecordIndex(students, rid) # 0
                                  /\ rid \notin ScannedSet(q)}
             IN /\ \A rid \in unscanned :
                      StatusFor(CellOf(students', rid), q.session_number) = "A"
                /\ last'.absent_count = Cardinality(unscanned)
                /\ last'.scanned_count = Cardinality(ScannedSet(q))
      ]_vars

\* C4: in every reachable state at most one QR session of the (class, date) has
\* status active, whatever starts, polls, scans and stops came before.
C4_AtMostOneActiveSession == Cardinality(ActiveSessions) <= 1

\* a second session is stored beside a stopped one and is the only active one
C4_Witness ==
    /\ impl = "mongo"
    /\ Len(qr_sessions) = 2
    /\ qr_sessions[1].status = "stopped"
    /\ qr_sessions[2].status = "active"
    /\ last.op = "start" /\ last.result = "ok"

\* C5: a start by the class owner while a session is active is rejected with a
\* conflict, and the active session keeps its session_number, current_code and
\* scanned_students.
C5_StartConflictKeepsSession ==
    [][ \A interval \in RotationIntervals, code \in Codes :
          ( /\ ActiveSessions # {}
            /\ \/ FileStart(Owner, interval, code)
               \/ MongoStart(Owner, interval, code)
               \/ HttpStart(Owner, interval, code) )
          => /\ last'.result = "conflict"
             /\ ActiveSessions' = ActiveSessions
             /\ \A k \in ActiveSessions :
                   /\ qr_sessions'[k].session_number = qr_sessions[k].session_number
                   /\ qr_sessions'[k].current_code = qr_sessions[k].current_code
                   /\ qr_sessions'[k].scanned_students = qr_sessions[k].scanned_students
      ]_vars

\* C6: a stopped QR session never becomes active again: while no session is
\* active every scan is rejected as "no active session" and changes no student
\* record, a stopped session stays as it is until a start puts a new session in
\* its place, and every session a start creates has an empty scanned set.
C6_StopIsTerminal ==
    [][ /\ (ActiveSessions = {} /\ StepOf("scan"))
             => /\ last'.result = "no_active_session"
                /\ students' = students
                /\ qr_sessions' = qr_sessions
        /\ \A k \in 1..Len(qr_sessions) :
             qr_sessions[k].status = "stopped"
             => \/ k <= Len(qr_sessions') /\ qr_sessions'[k] = qr_sessions[k]
                \/ /\ StepOf("start") /\ last'.result = "ok"
                   /\ k <= Len(qr_sessions')
                   /\ qr_sessions'[k].status = "active"
                   /\ qr_sessions'[k].scanned_students = <<>>
        /\ (StepOf("start") /\ last'.result = "ok")
             => /\ ActiveSessions' # {}
                /\ \A k \in ActiveSessions' : qr_sessions'[k].scanned_students = <<>>
      ]_vars

\* a scan arrived after the stop of a session and was turned away
C6_Witness ==
    /\ last.op = "scan" /\ last.result = "no_active_session"
    /\ \E k \in 1..Len(qr_sessions) :
          /\ qr_sessions[k].status = "stopped"
          /\ qr_sessions[k].scanned_students # <<>>

\* C7: when the stopped session numbered n committed a verdict (a scan succeeded
\* or stop counted an active enrollee absent), the next successful start gets
\* n + 1; and no start gets a number below that of the session stored before it.
C7_NextNumberAfterCommit ==
    [][ (StepOf("start") /\ last'.result = "ok")
          => /\ ( /\ last.op = "stop" /\ last.result = "ok"
                  /\ last.scanned_count > 0 \/ last.absent_count > 0 )
                => last'.session_number = last.session_number + 1
             /\ \A k \in 1..Len(qr_sessions) :
                   last'.session_number >= qr_sessions[k].session_number
      ]_vars

\* C8: a start that follows a stop which committed nothing (no scan, nobody
\* counted absent) gets the number the stopped session had: the number depends
\* on the stored attendance alone, not on the QR sessions there have been.
C8_NumberIgnoresSessionHistory ==
    [][ ( /\ last.op = "stop" /\ last.result = "ok"
          /\ last.scanned_count = 0 /\ last.absent_count = 0
          /\ StepOf("start") /\ last'.result = "ok" )
          => last'.session_number = last.session_number
      ]_vars

\* C9: a scan whose code differs from the active session's current_code is
\* rejected as an invalid code and changes nothing: no student record, and not
\* the session's scanned_students, current_code or rotation timestamp.
C9_WrongCodeChangesNothing ==
    [][ \A s \in StudentIds, submitted \in Codes, code \in Codes :
          ( /\ ActiveSessions # {}
            /\ submitted # qr_sessions[ActiveSessionIndex].current_code
            /\ \/ FileScan(s, submitted)
               \/ MongoScan(s, submitted, code)
               \/ HttpScan(s, submitted) )
          => /\ last'.result = "invalid_code"
             /\ students' = students
             /\ qr_sessions' = qr_sessions
      ]_vars

\* C10: a scan by a student without an active enrollment is rejected and writes
\* nothing to the class or to the QR session; a scan with the current code by a
\* student who has just re-enrolled succeeds and marks the record the student
\* had before.
C10_ScanNeedsActiveEnrollment ==
    [][ \A s \in StudentIds, submitted \in Codes, code \in Codes :
          ( /\ ActiveSessions # {}
            /\ \/ FileScan(s, submitted)
               \/ MongoScan(s, submitted, code)
               \/ HttpScan(s, submitted) )
          => /\ ActiveEnrollmentIndex(s) = 0
                => /\ last'.result # "ok"
                   /\ students' = students
                   /\ qr_sessions' = qr_sessions
             /\ ( /\ ActiveEnrollmentIndex(s) # 0
                  /\ last.op = "enroll" /\ last.result = "re-enrolled"
                  /\ last.record = enrollments[ActiveEnrollmentIndex(s)].student_record_id
                  /\ submitted = qr_sessions[ActiveSessionIndex].current_code )
                => /\ last'.result = "ok"
                   /\ last'.record = last.record
                   /\ StatusFor(CellOf(students', last.record),
                                qr_sessions[ActiveSessionIndex].session_number) # Null
      ]_vars

\* C11: a stop by a teacher who does not own the class is rejected as
\* unauthorized: the session stays active with the same scanned set and no
\* student record changes; a stop with no active session is rejected and writes
\* nothing.
C11_StopNeedsOwner ==
    [][ \A teacher \in Teachers, code \in Codes :
          (FileStop(teacher) \/ MongoStop(teacher, code) \/ HttpStop(teacher))
          => /\ (teacher # Owner /\ ActiveSessions # {})
                => /\ last'.result = "unauthorized"
                   /\ ActiveSessions' = ActiveSessions
                   /\ \A k \in ActiveSessions :
                         qr_sessions'[k].scanned_students = qr_sessions[k].scanned_students
                   /\ students' = students
             /\ ActiveSessions = {}
                => /\ last'.result = "no_active_session"
                   /\ students' = students
                   /\ qr_sessions' = qr_sessions
      ]_vars

\* C12: a start on a class whose enrollment_mode is neither enrollment_via_id
\* nor link_based_enrollment is rejected and stores no QR session.
C12_StartNeedsEnrollmentMode ==
    [][ ( /\ StepOf("start")
          /\ enrollment_mode \notin {"enrollment_via_id", "link_based_enrollment"} )
          => /\ last'.result # "ok"
             /\ qr_sessions' = qr_sessions
      ]_vars

\* C13: a poll of the active session gives it a new code and sets the rotation
\* timestamp to the time of the poll exactly when the time since the last code
\* generation is at least rotation_interval (the clock counts half seconds); an
\* earlier poll leaves current_code and the timestamp as they are.
C13_PollRotatesWhenDue ==
    [][ (StepOf("poll") /\ last'.result = "ok")
          => LET k == ActiveSessionIndex
                 q == qr_sessions[k]
             IN IF now - q.code_generated_at >= 2 * q.rotation_interval
                THEN qr_sessions'[k].code_generated_at = now
                ELSE /\ qr_sessions'[k].current_code = q.current_code
                     /\ qr_sessions'[k].code_generated_at = q.code_generated_at
      ]_vars

\* C14: a poll while the (class, date) has no session, or only stopped ones,
\* reports that no session is active and changes nothing: no code is generated
\* and neither the sessions nor the class nor the enrollments are written.
C14_PollWithoutSessionIsNoOp ==
    [][ (StepOf("poll") /\ ActiveSessions = {})
          => /\ last'.result = "no_active_session"
             /\ qr_sessions' = qr_sessions
             /\ students' = students
             /\ enrollments' = enrollments
      ]_vars

\* a poll found only a stopped session and reported none active
C14_Witness ==
    /\ last.op = "poll" /\ last.result = "no_active_session"
    /\ ActiveSessions = {}
    /\ \E k \in 1..Len(qr_sessions) : qr_sessions[k].status = "stopped"

\* C15: a successful scan leaves current_code and the rotation timestamp of the
\* session as they were, and a different student with an active enrollment who
\* submits that code next, before a rotation is due, succeeds too.
C15_ScanKeepsCode ==
    [][ \A s \in StudentIds, submitted \in Codes, code \in Codes :
          ( /\ ActiveSessions # {}
            /\ \/ FileScan(s, submitted)
               \/ MongoScan(s, submitted, code)
               \/ HttpScan(s, submitted) )
          => LET k == ActiveSessionIndex
                 q == qr_sessions[k]
             IN /\ last'.result = "ok"
                   => /\ qr_sessions'[k].current_code = q.current_code
                      /\ qr_sessions'[k].code_generated_at = q.code_generated_at
                /\ ( /\ last.op = "scan" /\ last.result = "ok"
                     /\ ActiveEnrollmentIndex(s) # 0
                     /\ enrollments[ActiveEnrollmentIndex(s)].student_record_id # last.record
                     /\ submitted = q.current_code
                     /\ now - q.code_generated_at < 2 * q.rotation_interval )
                   => last'.result = "ok"
      ]_vars

\* C16: a successful scan repeated by the same student in the same session
\* changes nothing more: the student records (hence the cell, its shape and its
\* session entries) and scanned_students are what the first scan left.
C16_RepeatedScanIsIdempotent ==
    [][ ( /\ last.op = "scan" /\ last.result = "ok"
          /\ StepOf("scan") /\ last'.result = "ok"
          /\ last'.record = last.record )
          => /\ students' = students
             /\ \A k \in ActiveSessions :
                   qr_sessions'[k].scanned_students = qr_sessions[k].scanned_students
      ]_vars

\* the statuses of the entries of a canonical cell, in stored order
StatusesOf(c) == [i \in 1..Len(c.sessions) |-> c.sessions[i].status]

\* the ids of the entries of a canonical cell, in stored order
IdSeqOf(c) == [i \in 1..Len(c.sessions) |-> c.sessions[i].id]

\* C17's cell: canonical, ids session_1..session_n in order, session_n with the
\* verdict v, session_1 with the simple value the cell cur held (A when it was
\* empty), every session between with A
IsHistoryOf(c, cur, n, v) ==
    /\ HasSessions(c)
    /\ IdSeqOf(c) = [i \in 1..n |-> SessionId(i)]
    /\ StatusesOf(c) = [i \in 1..n |->
                           IF i = n THEN v
                           ELSE IF i = 1 /\ IsStr(cur) THEN cur.status ELSE "A"]

\* C17: a verdict at session_number n > 1 on a cell that is empty or simple
\* (scan: P on the scanning record; stop: A on every active enrollee who did not
\* scan) leaves a canonical cell with exactly session_1..session_n in order,
\* session_n holding the verdict, session_1 the simple value (A if the cell was
\* empty) and every other session A.
C17_VerdictBuildsHistory ==
    [][ /\ ( /\ StepOf("scan") /\ last'.result = "ok"
             /\ last'.session_number > 1
             /\ IsNone(CellOf(students, last'.record))
                \/ IsStr(CellOf(students, last'.record)) )
           => IsHistoryOf(CellOf(students', last'.record),
                          CellOf(students, last'.record), last'.session_number, "P")
        /\ ( /\ StepOf("stop") /\ last'.result = "ok"
             /\ last'.session_number > 1 )
           => \A rid \in ActiveRecordIds \ ScannedSet(qr_sessions[ActiveSessionIndex]) :
                 ( /\ RecordIndex(students, rid) # 0
                   /\ IsNone(CellOf(students, rid)) \/ IsStr(CellOf(students, rid)) )
                 => IsHistoryOf(CellOf(students', rid), CellOf(students, rid),
                                last'.session_number, "A")
      ]_vars

\* a scan in session 3 turned an empty cell into [A, A, P]
C17_Witness ==
    /\ last.op = "scan" /\ last.result = "ok" /\ last.session_number = 3
    /\ HasSessions(CellOf(students, last.record))
    /\ StatusesOf(CellOf(students, last.record)) = <<"A", "A", "P">>

\* session q is numbered 1 and the date holds no attendance but the P of the
\* records that scanned in q
FirstSessionOfDay(q) ==
    /\ q.session_number = 1
    /\ \A k \in 1..Len(students) :
          \/ students[k].attendance = NoCell
          \/ students[k].attendance = Simple("P") /\ students[k].id \in ScannedSet(q)

\* C18: in session 1 on a date with no prior attendance a successful scan
\* stores exactly the simple value P for the scanning record, and a successful
\* stop leaves every active enrollee who scanned with the simple P and stores
\* exactly the simple A for every active enrollee who did not; no canonical
\* cell is created.
C18_FirstSessionStoresSimple ==
    [][ (ActiveSessions # {} /\ FirstSessionOfDay(qr_sessions[ActiveSessionIndex]))
          => LET q == qr_sessions[ActiveSessionIndex]
             IN /\ (StepOf("scan") /\ last'.result = "ok")
                   => CellOf(students', last'.record) = Simple("P")
                /\ (StepOf("stop") /\ last'.result = "ok")
                   => \A rid \in ActiveRecordIds :
                         RecordIndex(students, rid) # 0
                         => CellOf(students', rid) =
                               IF rid \in ScannedSet(q) THEN Simple("P") ELSE Simple("A")
      ]_vars

\* entry i of the canonical cell after is entry i of before, but for the status
\* of the first entry
OnlyFirstStatusChanged(before, after) ==
    /\ HasSessions(after)
    /\ Len(after.sessions) = Len(before.sessions)
    /\ \A i \in 1..Len(before.sessions) :
          /\ after.sessions[i].id = before.sessions[i].id
          /\ after.sessions[i].name = before.sessions[i].name
          /\ i > 1 => after.sessions[i].status = before.sessions[i].status

\* C19: a verdict at session_number 1 on a cell that is already canonical (scan
\* on the scanning record, stop on every active enrollee who did not scan)
\* changes at most the status of the first entry: the cell stays canonical with
\* the same number of entries, and every id, name and other status is kept.
C19_FirstSessionKeepsEntries ==
    [][ /\ ( /\ StepOf("scan") /\ last'.result = "ok"
             /\ last'.session_number = 1
             /\ HasSessions(CellOf(students, last'.record)) )
           => OnlyFirstStatusChanged(CellOf(students, last'.record),
                                     CellOf(students', last'.record))
        /\ ( /\ StepOf("stop") /\ last'.result = "ok"
             /\ last'.session_number = 1 )
           => \A rid \in ActiveRecordIds \ ScannedSet(qr_sessions[ActiveSessionIndex]) :
                 ( /\ RecordIndex(students, rid) # 0
                   /\ HasSessions(CellOf(students, rid)) )
                 => OnlyFirstStatusChanged(CellOf(students, rid), CellOf(students', rid))
      ]_vars

\* the ids of a canonical cell are pairwise distinct
DistinctIds(c) ==
    \A i, j \in 1..Len(c.sessions) : c.sessions[i].id = c.sessions[j].id => i = j

\* C20's cell: canonical, holding every id session_1..session_n, ids pairwise
\* distinct, entries in the order of the numeric suffix of id
IsCompleteAndOrdered(c, n) ==
    /\ HasSessions(c)
    /\ \A i \in 1..n : SessionId(i) \in IdsOf(c.sessions)
    /\ DistinctIds(c)
    /\ \A i, j \in 1..Len(c.sessions) :
          i < j => IdNum(c.sessions[i].id) < IdNum(c.sessions[j].id)

\* C20: a scan or stop at session_number n > 1 on a canonical cell with pairwise
\* distinct ids (gaps and any order allowed) leaves a sessions list that holds
\* every id session_1..session_n, has pairwise distinct ids and is ordered by
\* the numeric suffix of id.
C20_CanonicalStaysCompleteAndOrdered ==
    [][ /\ ( /\ StepOf("scan") /\ last'.result = "ok"
             /\ last'.session_number > 1
             /\ HasSessions(CellOf(students, last'.record))
             /\ DistinctIds(CellOf(students, last'.record)) )
           => IsCompleteAndOrdered(CellOf(students', last'.record), last'.session_number)
        /\ ( /\ StepOf("stop") /\ last'.result = "ok"
             /\ last'.session_number > 1 )
           => \A rid \in ActiveRecordIds \ ScannedSet(qr_sessions[ActiveSessionIndex]) :
                 ( /\ RecordIndex(students, rid) # 0
                   /\ HasSessions(CellOf(students, rid))
                   /\ DistinctIds(CellOf(students, rid)) )
                 => IsCompleteAndOrdered(CellOf(students', rid), last'.session_number)
      ]_vars

\* the largest valid-session count any stored student record holds for the date
MaxValidCount(studs) ==
    SetMax({0} \cup {ValidSessionsOf(studs[k].attendance) : k \in 1..Len(studs)})

\* the highest session_number among the stored QR sessions (0: none stored)
MaxStoredNumber(sessions) ==
    SetMax({0} \cup {sessions[k].session_number : k \in 1..Len(sessions)})

\* C21: from a class with no attendance for the date, no start, scan, stop or
\* other step lifts a student's valid-session count above the highest
\* session_number started so far.  The counts are 0 at the beginning, and every
\* step leaves each count at most the larger of the counts before it (bounded
\* by the sessions started until then) and the numbers of the sessions stored
\* before or after it.
C21_CountWithinSessionsStarted ==
    [][ \A k \in 1..Len(students') :
          ValidSessionsOf(students'[k].attendance)
             <= SetMax({MaxValidCount(students), MaxStoredNumber(qr_sessions),
                        MaxStoredNumber(qr_sessions')})
      ]_vars

\* a record reached two valid sessions in the session numbered 2
C21_Witness ==
    /\ last.op = "scan" /\ last.result = "ok" /\ last.session_number = 2
    /\ ValidSessionsOf(CellOf(students, last.record)) = 2

\* the enrollments of a student that are active
ActiveEnrollmentsOf(s) ==
    {k \in 1..Len(enrollments) :
        enrollments[k].student_id = s /\ enrollments[k].status = "active"}

\* C22: whatever enrollments, unenrollments, re-enrollments and removals by the
\* teacher have happened, a student has at most one active enrollment in the class
C22_OneActiveEnrollment ==
    \A s \in StudentIds : Cardinality(ActiveEnrollmentsOf(s)) <= 1

\* C22: an enroll by a student whose enrollment is active is rejected and changes
\* neither the enrollments nor the student records
C22_EnrollWhenActiveIsRejected ==
    [][ \A s \in Movers :
           (ActiveEnrollmentsOf(s) # {} /\ (FileEnroll(s) \/ MongoEnroll(s)))
              => /\ last'.result = "already_enrolled"
                 /\ enrollments' = enrollments
                 /\ students' = students ]_vars

\* C22: both halves
C22_AtMostOneActiveEnrollment ==
    [](C22_OneActiveEnrollment) /\ C22_EnrollWhenActiveIsRejected

\* an enroll by an actively enrolled student that was rejected
C22_Witness ==
    /\ last.op = "enroll" /\ last.result = "already_enrolled"
    /\ \E k \in 1..Len(enrollments) :
          enrollments[k].student_id = "s2" /\ enrollments[k].status = "active"

\* the enrollments of a student that are inactive
InactiveEnrollmentsOf(s) ==
    {k \in 1..Len(enrollments) :
        enrollments[k].student_id = s /\ enrollments[k].status = "inactive"}

\* the attendance maps stored under a record id
AttendanceOf(studs, rid) == {studs[k].attendance : k \in {j \in 1..Len(studs) : studs[j].id = rid}}

\* an enroll of s taken while the enrollment of s is inactive
ReEnrollStep(s) ==
    /\ InactiveEnrollmentsOf(s) # {} /\ ActiveEnrollmentsOf(s) = {}
    /\ FileEnroll(s) \/ MongoEnroll(s)

\* C23 (the re-enrollment itself): it reactivates the inactive enrollment under its
\* original student_record_id, adds no enrollment and no student record, and leaves
\* the record with the attendance map it had
C23_ReEnrollReactivates ==
    [][ \A s \in Movers :
           ReEnrollStep(s) =>
              LET k == FirstIndex(InactiveEnrollmentsOf(s))
                  rid == enrollments[k].student_record_id
              IN /\ Len(enrollments') = Len(enrollments)
                 /\ enrollments'[k] = [enrollments[k] EXCEPT !.status = "active"]
                 /\ last'.record = rid
                 /\ Len(students') = Len(students)
                 /\ Cardinality(AttendanceOf(students, rid)) = 1
                 /\ AttendanceOf(students', rid) = AttendanceOf(students, rid) ]_vars

\* C23 (between unenrollment and re-enrollment): while the enrollment is inactive
\* the record keeps the attendance map it had at unenrollment
C23_InactiveRecordKept ==
    [][ \A k \in 1..Len(enrollments) :
           (enrollments[k].status = "inactive" /\ Len(enrollments') >= k
               /\ enrollments'[k].status = "inactive")
              => AttendanceOf(students', enrollments[k].student_record_id)
                    = AttendanceOf(students, enrollments[k].student_record_id) ]_vars

\* C23: a re-enrollment reactivates the earlier enrollment with its record id, adds
\* no record, and finds the attendance map as it was at unenrollment
C23_ReEnrollRestoresRecord == C23_ReEnrollReactivates /\ C23_InactiveRecordKept

\* C23, refuted: a re-enrollment reports the original record id while the class
\* holds no record with that id
C23_ReEnrolledRecordExists ==
    (last.op = "enroll" /\ last.result = "re-enrolled")
       => RecordIndex(students, last.record) # 0

TeacherStep == last'.op \in {"update", "start", "stop"} /\ now' = now

\* C25: a step of the teacher taken while a student's enrollment is inactive leaves
\* the student's record in the class, under its id, with its attendance map
C25_TeacherKeepsUnenrolledRecord ==
    [][ TeacherStep =>
           \A k \in 1..Len(enrollments) :
              (enrollments[k].status = "inactive"
                  /\ RecordIndex(students, enrollments[k].student_record_id) # 0)
                 => AttendanceOf(students', enrollments[k].student_record_id)
                       = AttendanceOf(students, enrollments[k].student_record_id) ]_vars

\* the statuses a cell decodes to, one for each session it stands for
DecodedStatuses(c) ==
    IF HasSessions(c) THEN [k \in 1..Len(c.sessions) |-> c.sessions[k].status]
    ELSE IF HasStatus(c) THEN [k \in 1..c.count |-> c.status]
    ELSE IF IsStr(c) THEN <<c.status>>
    ELSE <<>>

\* the valid sessions with the status in an attendance map, over all dates
SessionsWith(attendance, status) ==
    SumOver([d \in 1..Len(attendance) |->
                Cardinality({i \in 1..Len(DecodedStatuses(attendance[d])) :
                                DecodedStatuses(attendance[d])[i] = status})],
            1..Len(attendance))

ValidTotal(attendance) ==
    SessionsWith(attendance, "P") + SessionsWith(attendance, "A") + SessionsWith(attendance, "L")

Attended(attendance) == SessionsWith(attendance, "P") + SessionsWith(attendance, "L")

\* the students of a roster that have at least one valid session
WithValidSessions(studs) == {k \in 1..Len(studs) : ValidTotal(studs[k].attendance) > 0}

\* the mean of (p + l) / t * 100 over the students in S, as <<numerator, denominator>>
RECURSIVE MeanFraction(_, _)
MeanFraction(studs, S) ==
    IF S = {} THEN <<0, 1>>
    ELSE LET k == CHOOSE x \in S : TRUE
             rest == MeanFraction(studs, S \ {k})
             t == ValidTotal(studs[k].attendance)
         IN <<rest[1] * t + Attended(studs[k].attendance) * 100 * rest[2], rest[2] * t>>

\* that mean, in thousandths of a percent, rounded to the given number of thousandths
MeanPercentage(studs, unit) ==
    LET S == WithValidSessions(studs)
        sum == MeanFraction(studs, S)
    IN IF S = {} THEN 0
       ELSE unit * RoundDiv(sum[1] * 1000, sum[2] * Cardinality(S) * unit)

\* the record a student-statistics result is about
StatsRecord == students[RecordIndex(students, last.record)]

\* C26 (per student): the reported counters are the numbers of valid Present, Absent
\* and Late sessions over all dates and their sum, and the percentage is
\* (p + l) / t * 100 to three places, 0 when t = 0
C26_StudentCounters ==
    last.op = "student_statistics" =>
        LET attendance == StatsRecord.attendance
            p == SessionsWith(attendance, "P")
            a == SessionsWith(attendance, "A")
            l == SessionsWith(attendance, "L")
        IN /\ last.statistics.present = p
           /\ last.statistics.absent = a
           /\ last.statistics.late = l
           /\ last.statistics.total_classes = p + a + l
           /\ last.statistics.percentage =
                 IF p + a + l > 0 THEN RoundDiv((p + l) * 100000, p + a + l) ELSE 0

\* C26 (class average): the average the managers store with the class counts
\* Late as attended and Absent as not attended
C26_ClassAverageCountsLate ==
    /\ last.op = "class_statistics"
          => last.statistics.avgAttendance = MeanPercentage(students, 1)
    /\ last.op = "mongo_class_statistics"
          => last.statistics.averageAttendance = MeanPercentage(students, 10)

\* C26: Present and Late count as attended and Absent does not, in the per-student
\* statistics and in the class average alike
C26_LateCountsAsAttended == C26_StudentCounters /\ C26_ClassAverageCountsLate

\* the thresholds a result was computed against
UsedThresholds == IF last.thresholds.kind = "none" THEN Thresholds(95, 90, 85, 85) ELSE last.thresholds

\* (p + l) / t * 100 >= cutoff for the record of the result
AtLeastCutoff(cutoff) ==
    Attended(StatsRecord.attendance) * 100 >= cutoff * ValidTotal(StatsRecord.attendance)

\* C27: for a student with valid sessions the status is excellent iff the percentage
\* reaches the excellent cutoff, otherwise good iff it reaches the good cutoff,
\* otherwise moderate iff it reaches the moderate cutoff, otherwise "at risk", with
\* the cutoffs of the class, or 95/90/85/85 when the class has none
C27_StatusIsHighestBucket ==
    (last.op = "student_statistics" /\ ValidTotal(StatsRecord.attendance) > 0) =>
        last.statistics.status =
            IF AtLeastCutoff(UsedThresholds.excellent) THEN "excellent"
            ELSE IF AtLeastCutoff(UsedThresholds.good) THEN "good"
            ELSE IF AtLeastCutoff(UsedThresholds.moderate) THEN "moderate"
            ELSE "at risk"

\* a student whose percentage lies between the good and the excellent cutoff of the class
C27_Witness ==
    /\ last.op = "student_statistics"
    /\ last.thresholds.kind = "dict"
    /\ ValidTotal(StatsRecord.attendance) > 0
    /\ ~AtLeastCutoff(UsedThresholds.excellent)
    /\ AtLeastCutoff(UsedThresholds.good)
    /\ last.statistics.status = "good"

\* C28: a student with no valid session on any date is reported with status
\* "no data" and percentage 0
C28_NoDataWithoutValidSessions ==
    (last.op = "student_statistics" /\ ValidTotal(StatsRecord.attendance) = 0) =>
        /\ last.statistics.status = "no data"
        /\ last.statistics.percentage = 0

\* a cell without its null-status entries
WithoutNullEntries(c) ==
    IF HasSessions(c) THEN SessionsCell(SelectSeq(c.sessions, LAMBDA s : s.status # Null)) ELSE c

\* a roster with the null-status entries removed from every cell
RosterWithoutNullEntries(studs) ==
    [k \in 1..Len(studs) |->
        [studs[k] EXCEPT !.attendance =
            [d \in 1..Len(studs[k].attendance) |-> WithoutNullEntries(studs[k].attendance[d])]]]

\* C29 (student counters): null-status entries add nothing to present, absent, late
\* and total_classes
C29_StudentCountersIgnoreNull ==
    last.op = "student_statistics" =>
        LET stripped == RosterWithoutNullEntries(students)[RecordIndex(students, last.record)]
            s == CalculateStudentStatistics(stripped, last.thresholds)
        IN /\ last.statistics.present = s.present
           /\ last.statistics.absent = s.absent
           /\ last.statistics.late = s.late
           /\ last.statistics.total_classes = s.total_classes

\* C29 (class statistics): the statistics stored with the class are those of the
\* class without its null-status entries
C29_ClassStatisticsIgnoreNull ==
    /\ last.op = "class_statistics"
          => last.statistics =
                CalculateClassStatistics(RosterWithoutNullEntries(students), last.thresholds)
    /\ last.op = "mongo_class_statistics"
          => last.statistics = MongoCalculateClassStatistics(RosterWithoutNullEntries(students))
    /\ last.op = "multi_session"
          => last.statistics = MultiSessionStatistics(RosterWithoutNullEntries(students))

\* C29 (numbering): the number of the next session of a date is the one the class
\* without its null-status entries gets
C29_NumberingIgnoresNull ==
    last.op = "session_number" =>
        last.session_number =
            IF impl = "file"
            THEN CountValidSessionsForDate(
                    OnDate(RosterWithoutNullEntries(students), last.date)) + 1
            ELSE GetCurrentSessionNumberForDate(
                    OnDate(RosterWithoutNullEntries(MongoGetClass), last.date))

\* C29: null-status entries change neither the counters, nor the class statistics,
\* nor the number of the next session
C29_NullEntriesChangeNothing ==
    /\ C29_StudentCountersIgnoreNull
    /\ C29_ClassStatisticsIgnoreNull
    /\ C29_NumberingIgnoresNull

\* C30: the class average is the mean of the percentages of exactly the students
\* with a valid session, and totalStudents is the size of the roster
C30_AverageOverStudentsWithSessions ==
    last.op \in {"class_statistics", "multi_session"} =>
        /\ last.statistics.avgAttendance = MeanPercentage(students, 1)
        /\ last.statistics.totalStudents = Len(students)

\* the step completed an operation that writes a class's students or attendance
C31_Mutates ==
    /\ now' = now
    /\ \/ last'.op \in {"scan", "stop"} /\ last'.result = "ok"
       \/ last'.op = "enroll" /\ last'.result \in {"enrolled", "re-enrolled"}

C32_Encodings(s) ==
    { Simple(s), Counted(s, 1), SessionsCell(<<Entry(SessionId(1), PlainName(1), s)>>) }

\* the cells a cell may be replaced by: the encodings of the same single session
C32_Interchangeable(c) ==
    IF \E s \in {"P", "A", "L"} : c \in C32_Encodings(s)
    THEN UNION {C32_Encodings(s) : s \in {s \in {"P", "A", "L"} : c \in C32_Encodings(s)}}
    ELSE {c}

RECURSIVE C32_CellTuples(_)
\* the attendance maps that differ from the map only in the encoding of single sessions
C32_CellTuples(attendance) ==
    IF Len(attendance) = 0 THEN {<<>>}
    ELSE { Append(t, c) : t \in C32_CellTuples(SubSeq(attendance, 1, Len(attendance) - 1)),
                          c \in C32_Interchangeable(attendance[Len(attendance)]) }

RECURSIVE C32_Variants(_)
\* the classes that differ from studs only in the encoding of single sessions
C32_Variants(studs) ==
    IF Len(studs) = 0 THEN {<<>>}
    ELSE { Append(v, [studs[Len(studs)] EXCEPT !.attendance = a]) :
              v \in C32_Variants(SubSeq(studs, 1, Len(studs) - 1)),
              a \in C32_CellTuples(studs[Len(studs)].attendance) }

\* the re-encoded records of the student the request was about
C32_RecordVariants(rid) ==
    { v[k] : v \in C32_Variants(students), k \in {k \in 1..Len(students) : students[k].id = rid} }

C32_StudentUnchanged ==
    last'.op = "student_statistics" =>
        \A r \in C32_RecordVariants(last'.record) :
            last'.statistics =
                (IF impl = "file" THEN CalculateStudentStatistics(r, last'.thresholds)
                 ELSE MongoCalculateStudentStatistics(r, last'.thresholds))

C32_ClassUnchanged ==
    /\ last'.op = "class_statistics" =>
          \A v \in C32_Variants(students) :
              last'.statistics = CalculateClassStatistics(v, last'.thresholds)
    /\ last'.op = "mongo_class_statistics" =>
          \A v \in C32_Variants(students) :
              last'.statistics = MongoCalculateClassStatistics(v)

C32_NumberUnchanged ==
    last'.op = "session_number" =>
        IF impl = "file"
        THEN \A v \in C32_Variants(students) :
                last'.session_number = CountValidSessionsForDate(OnDate(v, last'.date)) + 1
        ELSE \A v \in C32_Variants(MongoGetClass) :
                last'.session_number = GetCurrentSessionNumberForDate(OnDate(v, last'.date))

\* C32: for s in {P, A, L} the encodings s, {status: s, count: 1} and
\* {sessions: [{id: session_1, name, status: s}]} are interchangeable: replacing one
\* by another changes neither the student statistics, nor the class statistics,
\* nor the next session number
C32_EncodingsInterchangeable ==
    [][C32_StudentUnchanged /\ C32_ClassUnchanged /\ C32_NumberUnchanged]_vars

\* a value of unrecognized shape: a string outside {P, A, L}, an object with neither
\* sessions nor status, a sessions value that is not a list, a counted value whose
\* status is outside {P, A, L}
C33_Unrecognized(c) ==
    \/ IsStr(c) /\ c.status \notin {"P", "A", "L"}
    \/ c = OtherObject
    \/ NotAList(c)
    \/ HasStatus(c) /\ c.status \notin {"P", "A", "L"}

\* the class with every unrecognized value replaced by the given one
C33_Replaced(studs, by) ==
    [k \in 1..Len(studs) |->
        [studs[k] EXCEPT !.attendance =
            [d \in 1..MaxDates |-> IF C33_Unrecognized(studs[k].attendance[d]) THEN by
                                   ELSE studs[k].attendance[d]]]]

\* a stored value that holds no valid session
C33_NoValidSession == SessionsCell(<<Entry(SessionId(1), PlainName(1), Null)>>)

C33_SomeUnrecognized(studs) ==
    \E k \in 1..Len(studs), d \in 1..MaxDates : C33_Unrecognized(studs[k].attendance[d])

C33_NoneRaises == "error" \notin DOMAIN last'

C33_StatisticsCountZero ==
    LET clean == C33_Replaced(students, C33_NoValidSession)
    IN /\ last'.op = "student_statistics" =>
             \E k \in 1..Len(students) :
                /\ students[k].id = last'.record
                /\ last'.statistics = CalculateStudentStatistics(clean[k], last'.thresholds)
       /\ last'.op = "class_statistics" =>
             last'.statistics = CalculateClassStatistics(clean, last'.thresholds)
       /\ last'.op = "mongo_class_statistics" =>
             last'.statistics = MongoCalculateClassStatistics(clean)

C33_NumberingCountsZero ==
    last'.op = "session_number" =>
        last'.session_number =
            NextSessionNumber(OnDate(C33_Replaced(IF impl = "file" THEN students ELSE MongoGetClass,
                                                  NoCell), last'.date))

\* C33: a value of unrecognized shape contributes zero valid sessions to the
\* statistics and to the session numbering, and none of them raises
C33_UnrecognizedCountsZero ==
    [][C33_SomeUnrecognized(students) =>
          C33_NoneRaises /\ (C33_NoneRaises => C33_StatisticsCountZero /\ C33_NumberingCountsZero)]_vars

\* the request writes in this step
C34_Writes(p) == p \in InFlight("scan") /\ Done(p) \in pending' /\ Done(p) \notin pending

\* the record's value for the date holds a present mark
C34_MarkedPresent(studs, rid) ==
    \E k \in 1..Len(studs) : studs[k].id = rid /\ StatusFor(studs[k].attendance, 1) = "P"

\* the stored value of the record
C34_CellOf(studs, rid) == studs[RecordIndex(studs, rid)].attendance

\* C34: when two scans by different students both read the class document before
\* either writes, the later write stores the whole document as its request read it:
\* every other record returns to the value of that read, so the present mark the
\* earlier scan stored is lost (last write wins)
C34_LastWriteWins ==
    [][\A p \in pending :
          C34_Writes(p) =>
             \A k \in 1..Len(students) :
                students[k].id # p.record =>
                   C34_CellOf(students', students[k].id) = C34_CellOf(p.class, students[k].id)]_vars

\* both scans were answered with success and the mark of one of them is gone
C34_Witness ==
    \E p1, p2 \in pending :
       /\ p1.kind = "scan" /\ p1.phase = "done"
       /\ p2.kind = "scan" /\ p2.phase = "done"
       /\ p1.record # p2.record
       /\ ~C34_MarkedPresent(students, p1.record)
       /\ C34_MarkedPresent(students, p2.record)
       /\ last.op = "scan"

\* the scans answered with success
C35_Scanners(reqs) == {p.record : p \in {r \in reqs : r.kind = "scan" /\ r.phase = "done"}}

\* every scanner is in scanned_students of the active session
C35_Recorded(reqs, sessions) ==
    \A k \in 1..Len(sessions) :
        sessions[k].status = "active" => C35_Scanners(reqs) \subseteq ScannedSet(sessions[k])

\* the stop leaves the value of every scanner as it was
C35_StopSparesScanners ==
    (StepOf("stop") /\ last'.result = "ok") =>
        \A rid \in C35_Scanners(pending) :
            C34_CellOf(students', rid) = C34_CellOf(students, rid)

\* C35: once a scan by a record succeeded in an active session, the record stays in
\* scanned_students until the stop, under every interleaving of the read and write
\* steps of polls and scans, so the stop never marks a scanner absent
C35_ScannerStaysScanned ==
    [][C35_Recorded(pending', qr_sessions') /\ C35_StopSparesScanners]_vars

\* the session the stop ends
C36_Stopped == qr_sessions[IF impl = "file" THEN 1 ELSE IF impl = "http" THEN 1 ELSE ActiveSessionIndex]

\* the record is stored after the step with the value it had before
C36_Kept(rid) ==
    /\ RecordIndex(students', rid) # 0
    /\ C34_CellOf(students', rid) = C34_CellOf(students, rid)

\* the stop changes no record that is in scanned_students
C36_ScannersKept ==
    \A k \in 1..Len(students) :
        students[k].id \in ScannedSet(C36_Stopped) => C36_Kept(students[k].id)

\* the stop changes no record without an active enrollment
C36_UnenrolledKept ==
    \A k \in 1..Len(students) :
        students[k].id \notin ActiveRecordIds => C36_Kept(students[k].id)

\* a scanner that holds P for the session holds it after the stop
C36_ScannerKeepsPresent ==
    \A k \in 1..Len(students) :
        (/\ students[k].id \in ScannedSet(C36_Stopped)
         /\ StatusFor(students[k].attendance, C36_Stopped.session_number) = "P")
        => /\ RecordIndex(students', students[k].id) # 0
           /\ StatusFor(C34_CellOf(students', students[k].id), C36_Stopped.session_number) = "P"

\* C36: a stop leaves unchanged the value of every record in scanned_students and of
\* every record without an active enrollment; a scanner keeps P for the session, so
\* a start, scans and a stop that do not interleave never turn a recorded P into A
C36_StopFrame ==
    [][(StepOf("stop") /\ last'.result = "ok") =>
          C36_ScannersKept /\ C36_UnenrolledKept /\ C36_ScannerKeepsPresent]_vars

\* the value the update left for the student and the date
C37_Stored == C34_CellOf(students', last'.record)[last'.date]

\* the update stores only entries with a status, and no value when none remain
C37_StoresValidOnly ==
    last'.op = "multi_session" =>
        \/ C37_Stored = NoCell
        \/ /\ HasSessions(C37_Stored)
           /\ Len(C37_Stored.sessions) > 0
           /\ \A k \in 1..Len(C37_Stored.sessions) : C37_Stored.sessions[k].status # Null

\* no student holds a value for the date
C37_AllCleared(studs, d) == \A k \in 1..Len(studs) : studs[k].attendance[d] = NoCell

\* the number a start would give the next session of a date without values
C37_NumberedOne ==
    (last'.op = "session_number" /\ C37_AllCleared(students, last'.date)) =>
        last'.session_number = 1

\* C37: a manual multi-session update stores only entries with non-null status and
\* deletes the value of the date when none remain; once every student's value for a
\* date is cleared this way, the next start_qr_session for the date is numbered 1
C37_ClearedDateRestartsAtOne ==
    [][C37_StoresValidOnly /\ C37_NumberedOne]_vars

\* an update has just deleted the last value any student held for the date
C37_Witness ==
    /\ last.op = "multi_session"
    /\ last.cleared
    /\ C37_AllCleared(students, last.date)
    /\ IF impl = "file" THEN CountValidSessionsForDate(OnDate(students, last.date)) + 1 = 1
       ELSE GetCurrentSessionNumberForDate(OnDate(MongoGetClass, last.date)) = 1

\* the roster students whose own statistics carry the status
C38_WithStatus(status, thresholds) ==
    {k \in 1..Len(students) :
        CalculateStudentStatistics(students[k], thresholds).status = status}

C38_AtRiskAgrees ==
    last'.op = "class_statistics" =>
        last'.statistics.atRiskCount = Cardinality(C38_WithStatus("at risk", last'.thresholds))

C38_ExcellentAgrees ==
    last'.op = "class_statistics" =>
        last'.statistics.excellentCount =
            Cardinality(C38_WithStatus("excellent", last'.thresholds))

\* C38: for any thresholds the class's atRiskCount is the number of roster students
\* whose per-student status is "at risk", and its excellentCount the number whose
\* status is "excellent"
C38_CountsMatchStudentStatus ==
    [][C38_AtRiskAgrees /\ C38_ExcellentAgrees]_vars

\* the ids of the stored student records are pairwise distinct
C39_Distinct(studs) ==
    \A j, k \in 1..Len(studs) : j # k => studs[j].id # studs[k].id

\* a new enrollment gets an id no stored record holds
C39_NewIdIsFresh ==
    (last'.op = "enroll" /\ last'.result = "enrolled") => last'.record \notin RecordIds(students)

\* C39: the ids of the stored student records are pairwise distinct after any sequence
\* of enrollments, unenrollments, re-enrollments and removals by the teacher through
\* update_class; a new enrollment never receives the id of an existing record
C39_RecordIdsDistinct ==
    [][C39_Distinct(students') /\ C39_NewIdIsFresh]_vars

\* scanned_students of the session holds no id twice
C40_NoDuplicates(q) ==
    \A j, k \in 1..Len(q.scanned_students) :
        j # k => q.scanned_students[j] # q.scanned_students[k]

\* the ids the step added to scanned_students of the k-th stored session
C40_Added(k) ==
    ScannedSet(qr_sessions'[k]) \
        (IF k <= Len(qr_sessions) THEN ScannedSet(qr_sessions[k]) ELSE {})

\* C40: scanned_students of a QR session holds no id twice, and every id in it
\* belonged to an active enrollment at the moment its scan was recorded
C40_ScannedAreEnrolledOnce ==
    [][\A k \in 1..Len(qr_sessions') :
          /\ C40_NoDuplicates(qr_sessions'[k])
          /\ \A rid \in C40_Added(k) :
                /\ rid \in ActiveRecordIds
                /\ StepOf("scan") /\ last'.result = "ok" /\ last'.record = rid]_vars

\* both students are recorded in the session and a scan has just been accepted
C40_Witness ==
    /\ last.op = "scan" /\ last.result = "ok"
    /\ \E k \in 1..Len(qr_sessions) :
          /\ qr_sessions[k].status = "active"
          /\ Len(qr_sessions[k].scanned_students) = 2
          /\ last.record \in ScannedSet(qr_sessions[k])

====
